---- MODULE Spec2Model ----
(***************************************************************************)
(* A model of the job-collection job state machine (src/src/shared.ts,     *)
(* src/src/server.ts) and of the Job handle that builds job documents      *)
(* (src/src/job/job-queue.ts).                                             *)
(*                                                                         *)
(* The store is a function from job ids to job documents.  Every DDP       *)
(* method is an operator from a store state to a store state and a return  *)
(* value, composed of the store operations (find, update, insert, remove)  *)
(* the method issues, in the order it issues them.  Dates are natural      *)
(* numbers (ticks of the clock `now`).                                     *)
(***************************************************************************)
EXTENDS Integers, Sequences, FiniteSets, TLC

\* ------------------------------------------------------------- bounds
\* Number of job ids the store can hand out.
MaxJobs == 2
\* Last tick of the clock.
MaxTime == 1
\* Largest retry budget jobRestart may leave a job with.
MaxRetries == 1
\* Longest resolved array a stored job may hold.
MaxResolved == 1
\* Number of concurrent getWork callers.
MaxCallers == 2
\* Number of jobs and of runs in the scenarios of one job's retries or recurrences.
MaxChain == 3
\* Largest total a worker reports in job.progress.
MaxTotal == 3
\* Number of run ids getWork can hand out.
MaxRuns == 2
\* Ready jobs in the store a pool works on
MaxPoolJobs == 3
\* Largest concurrency, payload and prefetch of a pool
MaxConcurrency == 2
MaxPayload == 2
MaxPrefetch == 1
\* Functions waiting in the event loop when the user calls resume or trigger
MaxPending == 1
\* C27: the antecedents a job may name.
MaxDeps == 2
\* Last tick of the clock where runs expire.
MaxExpiry == 3
\* Extra completion signals the work functions of a pool send.
MaxSignals == 2
\* Longest timeout given to shutdownJobServer, in ticks of the clock.
MaxTimeout == 2

\* ---------------------------------------------------------- constants
\* Job.forever (2^53 in the source), scaled to fit the checker's integers.
forever == 1000000
\* Job.foreverDate (the largest Date in the source), scaled likewise.
foreverDate == 1000
\* Absent run id / absent job id.
null == 0
\* An optional field that is not set (expiresAfter, repeatRetries).
undefined == -1

jobStatuses == {"waiting", "paused", "ready", "running", "failed", "cancelled", "completed"}
\* A list of cancellable statuses that leaves out waiting.
jobStatusCancellable_noWaiting == {"running", "ready", "paused"}
jobStatusCancellable == {"running", "ready", "waiting", "paused"}
\* A list of pausable statuses that includes running.
jobStatusPausable_withRunning == {"ready", "waiting", "running"}
jobStatusPausable == {"ready", "waiting"}
jobStatusRemovable_withWaiting == {"cancelled", "completed", "failed", "waiting"}
jobStatusRemovable == {"cancelled", "completed", "failed"}
jobStatusRestartable == {"cancelled", "failed"}
jobRetryBackoffMethods == {"constant", "exponential"}

Ids == 1..MaxJobs
RunIds == 1..MaxRuns

VARIABLES
  jobs,      \* the store: job id -> job document
  nextId,    \* the next id insert hands out (ids are never reused)
  nextRunId, \* the next run id getWork generates
  now,       \* the clock
  stopped,   \* JobCollectionServer.stopped
  calls,     \* the method calls in progress whose store operations interleave
  pool       \* a JobQueue (worker pool) and its event loop; <<>> without one

vars == <<jobs, nextId, nextRunId, now, stopped, calls, pool>>

\* ------------------------------------------------------------ helpers
Range(s) == {s[k] : k \in 1..Len(s)}

Min(a, b) == IF a < b THEN a ELSE b

Max(a, b) == IF a > b THEN a ELSE b

RECURSIVE Pow2(_)
Pow2(n) == IF n <= 0 THEN 1 ELSE 2 * Pow2(n - 1)

RECURSIVE GCD(_, _)
GCD(a, b) == IF b = 0 THEN a ELSE GCD(b, a % b)

\* (100 * completed) / total, as the fraction <<numerator, denominator>> in lowest terms.
Percent(completed, total) ==
  LET g == GCD(100 * completed, total)
  IN  <<(100 * completed) \div g, total \div g>>

RECURSIVE SetToSeq(_)
\* The elements of a set of ids in ascending order (the store's natural order).
SetToSeq(S) ==
  IF S = {} THEN <<>>
  ELSE LET m == CHOOSE x \in S : \A y \in S : x <= y
       IN  <<m>> \o SetToSeq(S \ {m})

\* A $pull that removes nothing.
Pull_nothing(s, S) == s

\* $pull: the sequence without the elements of a set.
Pull(s, S) == SelectSeq(s, LAMBDA x : x \notin S)

\* ---------------------------------------------------- the Job handle
\* new Job(root, type, data): the document of a job that was never saved.
\* The fields `updated`, `created`, `log` and `failures` (timestamps and
\* append-only histories no method reads) are not part of the model's
\* documents: the log entries an update appends are counted in the update
\* (see updateAsync) and the failure records a method pushes are listed in
\* the store state (see St).  `result` tells whether the document holds a
\* result.
Job(type, data) ==
  [ runId |-> null, type |-> type, data |-> data, status |-> "waiting",
    priority |-> 0, depends |-> <<>>, resolved |-> <<>>,
    after |-> 0,
    retries |-> 1, retried |-> 0, retryUntil |-> foreverDate, retryWait |-> 0,
    retryBackoff |-> "constant", repeatRetries |-> 1,
    repeats |-> 0, repeated |-> 0, repeatUntil |-> foreverDate, repeatWait |-> 0,
    progress |-> [completed |-> 0, total |-> 1, percent |-> <<0, 1>>],
    result |-> FALSE,
    workTimeout |-> 0, expiresAfter |-> undefined ]

\* job.retry({retries, wait, backoff, until})
retry(doc, retries, wait, backoff, until) ==
  [doc EXCEPT !.retries = retries + 1, !.repeatRetries = retries + 1,
              !.retryWait = wait, !.retryBackoff = backoff, !.retryUntil = until]

\* job.repeat({repeats, wait, until})
repeat(doc, repeats, wait, until) ==
  [doc EXCEPT !.repeats = repeats, !.repeatWait = wait, !.repeatUntil = until]

\* job.after(time)
after(doc, time) == [doc EXCEPT !.after = time]

\* job.priority(level)
priority(doc, level) == [doc EXCEPT !.priority = level]

\* job.depends(jobs): the ids of saved jobs, in the order given.
depends(doc, ids) == [doc EXCEPT !.depends = ids, !.resolved = <<>>]

\* job.pause() on a job that was never saved.
pause(doc) == [doc EXCEPT !.status = "paused"]

\* ------------------------------------------------------------ the store
\* A store state threaded through a method: the documents, the id generator,
\* the status changes so far, the ids of the jobs onto whose `failures` a
\* record was pushed so far, and what the method returns: ret (a boolean
\* result, or whether an id / a document was returned), out (the ids returned)
\* and err (the method threw).
St ==
  [jobs |-> jobs, nextId |-> nextId, tr |-> {}, failures |-> <<>>,
   ret |-> FALSE, out |-> {}, err |-> FALSE]

\* The method threw (a failed check): nothing was written.
Throw(s) == [s EXCEPT !.ret = FALSE, !.out = {}, !.err = TRUE]

\* updateAsync(selector, mods, {multi: true}): `docs` maps the id of every
\* document the selector matches to the document the mods make of it, and n
\* is the number of log entries the mods push; records every status change
\* with n.
updateAsync(s, docs, n) ==
  [s EXCEPT
     !.jobs = [i \in DOMAIN s.jobs |-> IF i \in DOMAIN docs THEN docs[i] ELSE s.jobs[i]],
     !.tr = @ \cup { <<s.jobs[i].status, docs[i].status, n>> :
                     i \in {j \in DOMAIN docs : docs[j].status # s.jobs[j].status} }]

\* insertAsync(doc): the new id is s.nextId.
insertAsync(s, doc) ==
  [s EXCEPT !.jobs = [i \in DOMAIN s.jobs \cup {s.nextId} |->
                        IF i = s.nextId THEN doc ELSE s.jobs[i]],
            !.nextId = @ + 1]

\* removeAsync(selector) on the documents `sel`.
removeAsync(s, sel) ==
  [s EXCEPT !.jobs = [i \in DOMAIN s.jobs \ sel |-> s.jobs[i]]]

\* --------------------------------------------------------- DDP methods
\* A query of jobReady that does not look at depends.
jobReady_query_anyDepends(js, ids, force, time) ==
  { i \in DOMAIN js : /\ js[i].status = "waiting"
                      /\ js[i].after <= time
                      /\ (ids # {} => i \in ids) }

\* The query of jobReady's update: the jobs it makes ready.
jobReady_query(js, ids, force, time) ==
  { i \in DOMAIN js : /\ js[i].status = "waiting"
                      /\ js[i].after <= time
                      /\ (ids # {} => i \in ids)
                      /\ (~force => Len(js[i].depends) = 0) }

\* _DDPMethod_jobReady(ids, {force, time})
jobReady(s, ids, force, time) ==
  LET sel == jobReady_query(s.jobs, ids, force, time)
      M(d) == [d EXCEPT !.status = "ready",
                        !.after = IF ids # {} THEN now ELSE @,
                        !.depends = IF force THEN <<>> ELSE @]
  IN  [updateAsync(s, [i_ \in sel |-> M(s.jobs[i_])], IF force THEN 2 ELSE 1) EXCEPT !.ret = (sel # {})]

\* _DDPMethod_jobLog(id, runId, message)
jobLog(s, id, runId) ==
  LET sel == {id} \cap DOMAIN s.jobs
      M(d) == [d EXCEPT !.expiresAfter = IF d.workTimeout # 0 /\ d.status = "running"
                                         THEN now + d.workTimeout ELSE @]
  IN  [updateAsync(s, [i_ \in sel |-> M(s.jobs[i_])], 1) EXCEPT !.ret = (sel # {})]

\* An _idsOfDeps whose find does not look at the status.
idsOfDeps_anyStatus(js, ids, antecedents, dependents, statuses) ==
  LET antsArray == IF antecedents
                   THEN UNION { Range(js[i].depends) : i \in ids \cap DOMAIN js }
                   ELSE {}
  IN  { i \in DOMAIN js :
          \/ dependents /\ Range(js[i].depends) \cap ids # {}
          \/ antsArray # {} /\ i \in antsArray }

\* _idsOfDeps(ids, antecedents, dependents, jobStatuses)
idsOfDeps(js, ids, antecedents, dependents, statuses) ==
  LET antsArray == IF antecedents
                   THEN UNION { Range(js[i].depends) : i \in ids \cap DOMAIN js }
                   ELSE {}
  IN  { i \in DOMAIN js :
          /\ js[i].status \in statuses
          /\ \/ dependents /\ Range(js[i].depends) \cap ids # {}
             \/ antsArray # {} /\ i \in antsArray }

RECURSIVE jobCancel(_, _, _, _)
\* _DDPMethod_jobCancel(ids, {antecedents, dependents})
jobCancel(s, ids, antecedents, dependents) ==
  LET sel == { i \in ids \cap DOMAIN s.jobs : s.jobs[i].status \in jobStatusCancellable }
      M(d) == [d EXCEPT !.status = "cancelled", !.runId = null,
                        !.progress = [completed |-> 0, total |-> 1, percent |-> <<0, 1>>]]
      s1 == updateAsync(s, [i_ \in sel |-> M(s.jobs[i_])], 1)
      cancelIds == idsOfDeps(s1.jobs, ids, antecedents, dependents, jobStatusCancellable)
      s2 == IF cancelIds # {}
            THEN jobCancel(s1, cancelIds, antecedents, dependents)
            ELSE [s1 EXCEPT !.ret = FALSE]
  IN  IF ids = {} THEN [s EXCEPT !.ret = FALSE]
      ELSE [s2 EXCEPT !.ret = (sel # {} \/ s2.ret)]

RECURSIVE LogEach(_, _, _)
\* One _DDPMethod_jobLog(id, null, ...) call for each of n findings.
LogEach(s, id, n) == IF n = 0 THEN s ELSE LogEach(jobLog(s, id, null), id, n - 1)

\* _checkDeps's find: the _id, runId and status of the antecedents that exist.
checkDeps_find(js, deps) ==
  [j \in Range(deps) \cap DOMAIN js |-> [runId |-> js[j].runId, status |-> js[j].status]]

\* A dependency check that lets failed and cancelled antecedents pass.
checkDeps_cancels_never(status) == FALSE

\* An antecedent in this status makes _checkDeps cancel the job.
checkDeps_cancels(status) == status \in {"failed", "cancelled"}

\* _checkDeps(job, dryRun = false) after its find returned `found`; job is the
\* document with id `id` and the depends array `deps` the caller holds.
\* ret: the dependencies allow the job.
checkDeps_act(s, id, deps, found) ==
  LET missing == SelectSeq(deps, LAMBDA j : j \notin DOMAIN found)
      cancel1 == Cardinality(DOMAIN found) # Len(deps)
      s1 == IF cancel1 THEN LogEach(s, id, Len(missing)) ELSE s
      resolved == SetToSeq({ j \in DOMAIN found : found[j].status = "completed" })
      bad == { j \in DOMAIN found : checkDeps_cancels(found[j].status) }
      s2 == LogEach(s1, id, Cardinality(bad))
      cancel == cancel1 \/ bad # {}
      nlog == Cardinality({ j \in Range(resolved) : found[j].runId # null })
      M(d) == [d EXCEPT !.depends = Pull(@, Range(resolved)),
                        !.resolved = @ \o resolved]
      s3 == IF Len(resolved) > 0
            THEN updateAsync(s2, [i \in { j \in {id} \cap DOMAIN s2.jobs :
                                                 s2.jobs[j].status = "waiting" } |->
                                   M(s2.jobs[i])], nlog)
            ELSE s2
  IN  IF Len(deps) = 0 THEN [s EXCEPT !.ret = TRUE]
      ELSE IF cancel THEN [jobCancel(s3, {id}, FALSE, TRUE) EXCEPT !.ret = FALSE]
      ELSE [s3 EXCEPT !.ret = TRUE]

\* _checkDeps(job, dryRun = false) with no other method in between.
checkDeps(s, id, deps) == checkDeps_act(s, id, deps, checkDeps_find(s.jobs, deps))

RECURSIVE CancelEach(_, _)
\* for (const d of jobs) await this._DDPMethod_jobCancel(d._id), in the order found.
CancelEach(s, ids) ==
  IF Len(ids) = 0 THEN s
  ELSE CancelEach(jobCancel(s, {Head(ids)}, FALSE, TRUE), Tail(ids))

\* jobSave's adjustment of the document it was given: counters capped at
\* forever, times in the past moved to now.
jobSave_adjust(doc0) ==
  [doc0 EXCEPT !.repeats = Min(@, forever), !.retries = Min(@, forever),
               !.after = Max(@, now), !.retryUntil = Max(@, now),
               !.repeatUntil = Max(@, now)]

\* A cancelRepeats that spares the jobs with a finite repeats.
jobSave_existing_repeating(js, doc, cancelRepeats) ==
  IF doc.repeats = forever /\ cancelRepeats
  THEN { i \in DOMAIN js : /\ js[i].type = doc.type
                           /\ js[i].repeats = forever
                           /\ js[i].status \in jobStatusCancellable }
  ELSE {}

\* jobSave's find of the jobs a new job saved with cancelRepeats replaces.
jobSave_existing(js, doc, cancelRepeats) ==
  IF doc.repeats = forever /\ cancelRepeats
  THEN { i \in DOMAIN js : /\ js[i].type = doc.type
                           /\ js[i].status \in jobStatusCancellable }
  ELSE {}

\* A jobSave whose update of a stored job does not require it to be paused.
jobSave_anyStatus(s, id, doc0, cancelRepeats) ==
  LET doc == jobSave_adjust(doc0)
      \* update of an existing job
      selU == { i \in {id} \cap DOMAIN s.jobs : s.jobs[i].runId = null }
      MU(d) == [d EXCEPT !.status = "waiting", !.data = doc.data,
                         !.retries = doc.retries,
                         !.repeatRetries = IF doc.repeatRetries # undefined
                                           THEN doc.repeatRetries
                                           ELSE doc.retries + doc.retried,
                         !.retryUntil = doc.retryUntil, !.retryWait = doc.retryWait,
                         !.retryBackoff = doc.retryBackoff, !.repeats = doc.repeats,
                         !.repeatUntil = doc.repeatUntil, !.repeatWait = doc.repeatWait,
                         !.depends = doc.depends, !.priority = doc.priority,
                         !.after = doc.after]
      u1 == updateAsync(s, [i_ \in selU |-> MU(s.jobs[i_])], 1)
      u2 == IF selU # {} THEN checkDeps(u1, id, doc.depends) ELSE [u1 EXCEPT !.ret = FALSE]
      u3 == IF u2.ret THEN jobReady(u2, {id}, FALSE, now) ELSE u2
      \* insert of a new job
      existing == jobSave_existing(s.jobs, doc, cancelRepeats)
      i0 == CancelEach(s, SetToSeq(existing))
      newId == i0.nextId
      i1 == insertAsync(i0, doc)
      i2 == checkDeps(i1, newId, doc.depends)
      i3 == IF i2.ret THEN jobReady(i2, {newId}, FALSE, now) ELSE i2
  IN  IF doc0.status \notin {"waiting", "paused"} THEN Throw(s)
      ELSE IF id # null
      THEN [u3 EXCEPT !.ret = u2.ret, !.out = IF u2.ret THEN {id} ELSE {}]
      ELSE [i3 EXCEPT !.ret = i2.ret, !.out = IF i2.ret THEN {newId} ELSE {}]

\* _DDPMethod_jobSave(doc, {cancelRepeats}); id is doc._id (null: a new job).
\* ret: an id was returned (out holds it); otherwise the method returned null.
jobSave(s, id, doc0, cancelRepeats) ==
  LET doc == jobSave_adjust(doc0)
      \* update of an existing job
      selU == { i \in {id} \cap DOMAIN s.jobs :
                  s.jobs[i].status = "paused" /\ s.jobs[i].runId = null }
      MU(d) == [d EXCEPT !.status = "waiting", !.data = doc.data,
                         !.retries = doc.retries,
                         !.repeatRetries = IF doc.repeatRetries # undefined
                                           THEN doc.repeatRetries
                                           ELSE doc.retries + doc.retried,
                         !.retryUntil = doc.retryUntil, !.retryWait = doc.retryWait,
                         !.retryBackoff = doc.retryBackoff, !.repeats = doc.repeats,
                         !.repeatUntil = doc.repeatUntil, !.repeatWait = doc.repeatWait,
                         !.depends = doc.depends, !.priority = doc.priority,
                         !.after = doc.after]
      u1 == updateAsync(s, [i_ \in selU |-> MU(s.jobs[i_])], 1)
      u2 == IF selU # {} THEN checkDeps(u1, id, doc.depends) ELSE [u1 EXCEPT !.ret = FALSE]
      u3 == IF u2.ret THEN jobReady(u2, {id}, FALSE, now) ELSE u2
      \* insert of a new job
      existing == jobSave_existing(s.jobs, doc, cancelRepeats)
      i0 == CancelEach(s, SetToSeq(existing))
      newId == i0.nextId
      i1 == insertAsync(i0, doc)
      i2 == checkDeps(i1, newId, doc.depends)
      i3 == IF i2.ret THEN jobReady(i2, {newId}, FALSE, now) ELSE i2
  IN  IF doc0.status \notin {"waiting", "paused"} THEN Throw(s)
      ELSE IF id # null
      THEN [u3 EXCEPT !.ret = u2.ret, !.out = IF u2.ret THEN {id} ELSE {}]
      ELSE [i3 EXCEPT !.ret = i2.ret, !.out = IF i2.ret THEN {newId} ELSE {}]

\* A sort by priority alone.
SortsBefore_priorityOnly(a, b) == a.priority < b.priority

\* The sort of getWork's find: priority, then retryUntil, then after, ascending.
SortsBefore(a, b) ==
  \/ a.priority < b.priority
  \/ a.priority = b.priority /\ a.retryUntil < b.retryUntil
  \/ a.priority = b.priority /\ a.retryUntil = b.retryUntil /\ a.after < b.after

\* The results getWork's find may return: up to `limit` ready, unclaimed jobs
\* of the requested types, first in the sort order (ties in any order).
getWork_find(js, types, limit) ==
  LET cand == { i \in DOMAIN js : /\ js[i].type \in types
                                  /\ js[i].status = "ready"
                                  /\ js[i].runId = null }
  IN  { ids \in SUBSET cand :
          /\ Cardinality(ids) = Min(limit, Cardinality(cand))
          /\ \A a \in ids, b \in cand \ ids : ~SortsBefore(js[b], js[a]) }

\* getWork's update without its condition on status and runId.
getWork_update_unconditional(s, ids, runId, workTimeout) ==
  LET sel == ids \cap DOMAIN s.jobs
      M(d) == [d EXCEPT !.status = "running", !.runId = runId,
                        !.retries = @ - 1, !.retried = @ + 1,
                        !.workTimeout = workTimeout,
                        !.expiresAfter = IF workTimeout # 0 THEN now + workTimeout
                                         ELSE undefined]
  IN  [updateAsync(s, [i_ \in sel |-> M(s.jobs[i_])], 1) EXCEPT !.ret = (sel # {})]

\* getWork's conditional multi-update of the jobs it found.
getWork_update(s, ids, runId, workTimeout) ==
  LET sel == { i \in ids \cap DOMAIN s.jobs :
                 s.jobs[i].status = "ready" /\ s.jobs[i].runId = null }
      M(d) == [d EXCEPT !.status = "running", !.runId = runId,
                        !.retries = @ - 1, !.retried = @ + 1,
                        !.workTimeout = workTimeout,
                        !.expiresAfter = IF workTimeout # 0 THEN now + workTimeout
                                         ELSE undefined]
  IN  [updateAsync(s, [i_ \in sel |-> M(s.jobs[i_])], 1) EXCEPT !.ret = (sel # {})]

\* getWork's re-read of the jobs it updated.
getWork_reread(js, ids, runId) == { i \in ids \cap DOMAIN js : js[i].runId = runId }

RECURSIVE getWork_loop(_, _, _, _, _, _)
\* The while loop of _DDPMethod_getWork with no other method in between:
\* `ids` is what the first find returned; a later find of the same call can
\* only come back empty, which ends the loop.
getWork_loop(s, types, maxJobs, workTimeout, runId, ids) ==
  LET s1 == getWork_update(s, ids, runId, workTimeout)
      docs == IF s1.ret THEN s.out \cup getWork_reread(s1.jobs, ids, runId) ELSE s.out
      s2 == [s1 EXCEPT !.out = docs]
      more == getWork_find(s2.jobs, types, maxJobs - Cardinality(docs))
  IN  IF ids = {} THEN s
      ELSE IF Cardinality(docs) < maxJobs
      THEN getWork_loop(s2, types, maxJobs, workTimeout, runId,
                        CHOOSE x \in more : TRUE)
      ELSE s2

\* A getWork that hands out jobs whether the job server is stopped or not.
getWork_whileStopped(s, types, maxJobs, workTimeout, runId, ids) ==
  LET r == getWork_loop([s EXCEPT !.out = {}], types, maxJobs, workTimeout, runId, ids)
  IN  [r EXCEPT !.ret = (r.out # {})]

\* _DDPMethod_getWork(type, {maxJobs, workTimeout}) on the server, `ids`
\* being the result of its first find and runId the run id it generated.
getWork(s, types, maxJobs, workTimeout, runId, ids) ==
  IF stopped THEN [s EXCEPT !.ret = FALSE, !.out = {}]
  ELSE LET r == getWork_loop([s EXCEPT !.out = {}], types, maxJobs, workTimeout, runId, ids)
       IN  [r EXCEPT !.ret = (r.out # {})]

\* A _rerun_job whose clone keeps the result of doc.
rerun_job_keepsOutcome(s, doc, repeats, wait, repeatUntil) ==
  LET rr == IF doc.repeatRetries # undefined THEN doc.repeatRetries
            ELSE doc.retries + doc.retried
      new == [doc EXCEPT !.runId = null, !.status = "waiting",
                         !.repeatRetries = rr, !.retries = Min(rr, forever),
                         !.retryUntil = repeatUntil, !.retried = 0,
                         !.repeats = Min(repeats, forever), !.repeatUntil = repeatUntil,
                         !.repeated = @ + 1,
                         !.progress = [completed |-> 0, total |-> 1, percent |-> <<0, 1>>],
                         !.after = now + wait,
                         !.expiresAfter = undefined, !.workTimeout = 0]
      jobId == s.nextId
      s1 == insertAsync(s, new)
      s2 == jobReady(s1, {jobId}, FALSE, now)
  IN  [s2 EXCEPT !.ret = TRUE, !.out = {jobId}]

\* _rerun_job(doc, repeats, wait, repeatUntil): inserts the clone of doc.
rerun_job(s, doc, repeats, wait, repeatUntil) ==
  LET rr == IF doc.repeatRetries # undefined THEN doc.repeatRetries
            ELSE doc.retries + doc.retried
      new == [doc EXCEPT !.runId = null, !.status = "waiting",
                         !.repeatRetries = rr, !.retries = Min(rr, forever),
                         !.retryUntil = repeatUntil, !.retried = 0,
                         !.repeats = Min(repeats, forever), !.repeatUntil = repeatUntil,
                         !.repeated = @ + 1,
                         !.progress = [completed |-> 0, total |-> 1, percent |-> <<0, 1>>],
                         !.after = now + wait,
                         !.result = FALSE,
                         !.expiresAfter = undefined, !.workTimeout = 0]
      jobId == s.nextId
      s1 == insertAsync(s, new)
      s2 == jobReady(s1, {jobId}, FALSE, now)
  IN  [s2 EXCEPT !.ret = TRUE, !.out = {jobId}]

\* _DDPMethod_jobRerun(id, {repeats, wait, until}); until = undefined: not given.
jobRerun(s, id, repeats, wait, until) ==
  IF id \in DOMAIN s.jobs /\ s.jobs[id].status = "completed"
  THEN rerun_job(s, s.jobs[id], Min(repeats, forever), wait,
                 IF until # undefined THEN until ELSE s.jobs[id].repeatUntil)
  ELSE [s EXCEPT !.ret = FALSE, !.out = {}]

\* A findOne that does not match the run id.
findRunning_anyRun(js, id, runId) ==
  { i \in {id} \cap DOMAIN js : js[i].status = "running" }

\* jobFail's and jobDone's findOne: the running job of that run, if any.
findRunning(js, id, runId) ==
  { i \in {id} \cap DOMAIN js : js[i].runId = runId /\ js[i].status = "running" }

\* The $set of jobDone's update, from the document `doc` it read: the run id
\* is not among the fields set.
jobDone_mods(d, doc) ==
  [d EXCEPT !.status = "completed", !.result = TRUE,
            !.progress = [completed |-> IF doc.progress.total # 0
                                        THEN doc.progress.total ELSE 1,
                          total |-> IF doc.progress.total # 0
                                    THEN doc.progress.total ELSE 1,
                          percent |-> <<100, 1>>]]

\* A recurrence test that does not look at repeats.
jobDone_repeats_always(doc) == doc.repeatUntil - doc.repeatWait >= now

\* jobDone schedules the next recurrence of the job it read (repeatWait a number).
jobDone_repeats(doc) == doc.repeats > 0 /\ doc.repeatUntil - doc.repeatWait >= now

\* _DDPMethod_jobDone(id, runId, result, {delayDeps}); delayDeps = 0: not given.
jobDone(s, id, runId, delayDeps) ==
  LET doc == s.jobs[id]
      M(d) == jobDone_mods(d, doc)
      s1 == updateAsync(s, [i \in findRunning(s.jobs, id, runId) |-> M(s.jobs[i])], 1)
      s2 == IF jobDone_repeats(doc)
            THEN rerun_job(s1, doc, doc.repeats - 1, doc.repeatWait, doc.repeatUntil)
            ELSE s1
      ids == { i \in DOMAIN s2.jobs : id \in Range(s2.jobs[i].depends) }
      MD(d) == [d EXCEPT !.depends = Pull(@, {id}), !.resolved = Append(@, id),
                         !.after = IF delayDeps # 0 THEN Max(@, now + delayDeps) ELSE @]
      s3 == IF ids # {} THEN jobReady(updateAsync(s2, [i_ \in ids |-> MD(s2.jobs[i_])], 1), ids, FALSE, now) ELSE s2
  IN  IF findRunning(s.jobs, id, runId) # {}
      THEN [s3 EXCEPT !.ret = TRUE, !.out = IF s2.nextId # s1.nextId THEN {s1.nextId} ELSE {}]
      ELSE [s EXCEPT !.ret = FALSE, !.out = {}]

\* A next attempt time that ignores the backoff method.
jobFail_after_constant(doc) == now + doc.retryWait

\* The time of the next attempt jobFail computes from the document it read.
jobFail_after(doc) ==
  IF doc.retryBackoff = "exponential"
  THEN now + doc.retryWait * Pow2(doc.retried - 1)
  ELSE now + doc.retryWait

\* A retry test that is off by one.
jobFail_newStatus_offByOne(doc, fatal, aft) ==
  IF ~fatal /\ doc.retries >= 0 /\ doc.retryUntil >= aft THEN "waiting" ELSE "failed"

\* The status jobFail gives a job: waiting if it may be retried, failed otherwise.
jobFail_newStatus(doc, fatal, aft) ==
  IF ~fatal /\ doc.retries > 0 /\ doc.retryUntil >= aft THEN "waiting" ELSE "failed"

\* jobFail's $set without runId: null.
jobFail_mods_keepsRunId(d, newStatus, aft) ==
  [d EXCEPT !.status = newStatus, !.after = aft]

\* The $set of jobFail's update.
jobFail_mods(d, newStatus, aft) ==
  [d EXCEPT !.status = newStatus, !.runId = null, !.after = aft]

\* A jobFail update without $push failures.
jobFail_update_noFailure(s, id, runId, fatal, doc) ==
  LET aft == jobFail_after(doc)
      newStatus == jobFail_newStatus(doc, fatal, aft)
      M(d) == jobFail_mods(d, newStatus, aft)
      sel == findRunning(s.jobs, id, runId)
  IN  [updateAsync(s, [i_ \in sel |-> M(s.jobs[i_])], 1) EXCEPT !.ret = (sel # {})]

\* jobFail's conditional update, from the document `doc` it read: $set by
\* jobFail_mods, $push of the error onto failures and of one log entry;
\* ret: num = 1.
jobFail_update(s, id, runId, fatal, doc) ==
  LET aft == jobFail_after(doc)
      newStatus == jobFail_newStatus(doc, fatal, aft)
      M(d) == jobFail_mods(d, newStatus, aft)
      sel == findRunning(s.jobs, id, runId)
  IN  [updateAsync(s, [i_ \in sel |-> M(s.jobs[i_])], 1)
         EXCEPT !.ret = (sel # {}), !.failures = @ \o SetToSeq(sel)]

\* jobFail's find of the jobs that depend on id.
jobFail_dependents(js, id) == { i \in DOMAIN js : id \in Range(js[i].depends) }

\* _DDPMethod_jobFail(id, runId, err, {fatal})
jobFail(s, id, runId, fatal) ==
  LET doc == s.jobs[id]
      newStatus == jobFail_newStatus(doc, fatal, jobFail_after(doc))
      s1 == jobFail_update(s, id, runId, fatal, doc)
      s2 == IF newStatus = "failed" /\ s1.ret
            THEN CancelEach(s1, SetToSeq(jobFail_dependents(s1.jobs, id)))
            ELSE s1
  IN  IF findRunning(s.jobs, id, runId) = {} THEN [s EXCEPT !.ret = FALSE]
      ELSE [s2 EXCEPT !.ret = s1.ret]

\* Argument checks that do not compare completed with total.
jobProgress_valid_anyCompleted(completed, total) == completed >= 0 /\ total > 0

\* The argument checks of _DDPMethod_jobProgress.
jobProgress_valid(completed, total) ==
  completed >= 0 /\ total > 0 /\ total >= completed

\* _DDPMethod_jobProgress(id, runId, completed, total)
jobProgress(s, id, runId, completed, total) ==
  LET sel == { i \in {id} \cap DOMAIN s.jobs :
                 s.jobs[i].runId = runId /\ s.jobs[i].status = "running" }
      M(d) == [d EXCEPT !.progress = [completed |-> completed, total |-> total,
                                      percent |-> Percent(completed, total)],
                        !.expiresAfter = IF d.workTimeout # 0 THEN now + d.workTimeout ELSE @]
  IN  IF ~jobProgress_valid(completed, total) THEN Throw(s)
      ELSE [updateAsync(s, [i_ \in sel |-> M(s.jobs[i_])], 0) EXCEPT !.ret = (sel # {})]

\* A jobPause whose update pushes no log entry.
jobPause_noLog(s, ids) ==
  LET sel == { i \in ids \cap DOMAIN s.jobs : s.jobs[i].status \in jobStatusPausable }
      M(d) == [d EXCEPT !.status = "paused"]
  IN  [updateAsync(s, [i_ \in sel |-> M(s.jobs[i_])], 0) EXCEPT !.ret = (sel # {})]

\* _DDPMethod_jobPause(ids)
jobPause(s, ids) ==
  LET sel == { i \in ids \cap DOMAIN s.jobs : s.jobs[i].status \in jobStatusPausable }
      M(d) == [d EXCEPT !.status = "paused"]
  IN  [updateAsync(s, [i_ \in sel |-> M(s.jobs[i_])], 1) EXCEPT !.ret = (sel # {})]

\* _DDPMethod_jobResume(ids).  The selector's `updated: {$ne: time}` holds of
\* every document: no two calls read the same millisecond of the clock.
jobResume(s, ids) ==
  LET sel == { i \in ids \cap DOMAIN s.jobs : s.jobs[i].status = "paused" }
      M(d) == [d EXCEPT !.status = "waiting"]
      s1 == updateAsync(s, [i_ \in sel |-> M(s.jobs[i_])], 1)
  IN  IF sel # {} THEN [jobReady(s1, ids, FALSE, now) EXCEPT !.ret = TRUE]
      ELSE [s EXCEPT !.ret = FALSE]

\* _DDPMethod_jobRemove(ids)
jobRemove(s, ids) ==
  LET sel == { i \in ids \cap DOMAIN s.jobs : s.jobs[i].status \in jobStatusRemovable }
  IN  [removeAsync(s, sel) EXCEPT !.ret = (sel # {})]

RECURSIVE jobRestart(_, _, _, _, _, _)
\* _DDPMethod_jobRestart(ids, {retries, until, antecedents, dependents});
\* until = undefined: not given.
jobRestart(s, ids, retries, until, antecedents, dependents) ==
  LET sel == { i \in ids \cap DOMAIN s.jobs : s.jobs[i].status \in jobStatusRestartable }
      M(d) == [d EXCEPT !.status = "waiting",
                        !.progress = [completed |-> 0, total |-> 1, percent |-> <<0, 1>>],
                        !.retries = @ + Min(retries, forever),
                        !.retryUntil = IF until # undefined THEN until ELSE @]
      s1 == updateAsync(s, [i_ \in sel |-> M(s.jobs[i_])], 1)
      restartIds == idsOfDeps(s1.jobs, ids, antecedents, dependents, jobStatusRestartable)
      s2 == IF restartIds # {}
            THEN jobRestart(s1, restartIds, retries, until, antecedents, dependents)
            ELSE [s1 EXCEPT !.ret = FALSE]
  IN  IF ids = {} THEN [s EXCEPT !.ret = FALSE]
      ELSE IF sel # {} \/ s2.ret
      THEN [jobReady(s2, ids, FALSE, now) EXCEPT !.ret = TRUE]
      ELSE [s2 EXCEPT !.ret = FALSE]

RECURSIVE FailEach(_, _)
\* for (const job of zombieJobs) await new Job(root, job).fail(...), in the
\* order found, each with the run id read by the scan.
FailEach(s, zs) ==
  IF Len(zs) = 0 THEN s
  ELSE FailEach(jobFail(s, Head(zs)[1], Head(zs)[2], FALSE), Tail(zs))

\* A sweeper that promotes and does not look for expired runs.
promote_jobs_noZombies(s) ==
  IF stopped THEN s ELSE jobReady(s, {}, FALSE, now)

\* JobCollectionServer._promote_jobs(): the sweeper.
promote_jobs(s) ==
  LET zombieJobs == { i \in DOMAIN s.jobs : /\ s.jobs[i].status = "running"
                                            /\ s.jobs[i].expiresAfter # undefined
                                            /\ s.jobs[i].expiresAfter < now }
      zs == [k \in 1..Cardinality(zombieJobs) |->
               <<SetToSeq(zombieJobs)[k], s.jobs[SetToSeq(zombieJobs)[k]].runId>>]
  IN  IF stopped THEN s
      ELSE jobReady(FailEach(s, zs), {}, FALSE, now)


\* -------------------------------------- the methods called without options
\* The jobCancel method called with ids alone: antecedents ?? false,
\* dependents ?? true.
jobCancel_default(s, ids) == jobCancel(s, ids, FALSE, TRUE)

\* job.cancel() without options: the handle sets antecedents ?? true before it
\* calls the method, which sets dependents ?? true.
cancel(s, id) == jobCancel(s, {id}, TRUE, TRUE)

\* cancelJobs(ids) without options: antecedents ?? true as in job.cancel().
cancelJobs(s, ids) == jobCancel(s, ids, TRUE, TRUE)

\* The jobRestart method called with ids alone: retries ?? 1, dependents ??
\* false, antecedents ?? true, no until.
jobRestart_default(s, ids) == jobRestart(s, ids, 1, undefined, TRUE, FALSE)

\* job.restart() without options: the handle sets retries ?? 1 and
\* dependents ?? true before it calls the method, which sets antecedents ?? true.
restart(s, id) == jobRestart(s, {id}, 1, undefined, TRUE, TRUE)

\* restartJobs(ids) without options: dependents ?? true as in job.restart().
restartJobs(s, ids) == jobRestart(s, ids, 1, undefined, TRUE, TRUE)

\* ------------------------------------------------------------- actions
\* The bounds of a store state: no id beyond n, no resolved array longer than
\* MaxResolved.
Within(s, n) ==
  /\ s.nextId <= n + 1
  /\ \A i \in DOMAIN s.jobs : Len(s.jobs[i].resolved) <= MaxResolved

\* A method call that ran alone and ended in the store state s.
CallWithin(s, n) ==
  /\ Within(s, n)
  /\ jobs' = s.jobs
  /\ nextId' = s.nextId
  /\ UNCHANGED <<now, stopped, calls, pool>>

Call(s) == CallWithin(s, MaxJobs)

Types == {"send"}

\* An id no job ever has (insert hands out the ids up to MaxJobs + 1 at most).
MissingId == MaxJobs + 2

\* The ids a producer can name in depends: of any job saved before (stored or
\* removed since), or of no job at all.
DependsChoices == {<<>>} \cup { <<j>> : j \in (1..(nextId - 1)) \cup {MissingId} }

\* The documents producers save: built by the handle, with or without a
\* dependency and a pause before the save.
SaveDocs ==
  { IF p THEN pause(d) ELSE d :
      p \in BOOLEAN, d \in { depends(Job("send", 1), dp) : dp \in DependsChoices } }

\* job.save() of a new job, one of docs.
JobSaveCalls(docs) == { jobSave(St, null, doc, FALSE) : doc \in docs }

\* job.save() of a stored job, through a handle that holds the stored document
\* with its depends replaced.
JobResaveCalls ==
  { jobSave(St, id, [jobs[id] EXCEPT !.depends = d], FALSE) :
      id \in DOMAIN jobs, d \in DependsChoices }

JobReadyCalls ==
  { jobReady(St, ids, force, time) :
      ids \in SUBSET Ids, force \in BOOLEAN, time \in {now, foreverDate} }

GetWorkCalls ==
  UNION { { getWork(St, Types, maxJobs, 0, nextRunId, ids) :
              ids \in getWork_find(jobs, Types, maxJobs) } :
          maxJobs \in 1..MaxJobs }

\* job.progress(completed, total) by the workers of the runs R on the jobs I.
JobProgressCalls(I, R, C, T) ==
  { jobProgress(St, id, runId, completed, total) :
      id \in I, runId \in R, completed \in C, total \in T }

JobLogCalls == { jobLog(St, id, runId) : id \in Ids, runId \in RunIds \cup {null} }

\* job.done() by the workers of the runs R on the jobs I.
JobDoneCalls(I, R, D) ==
  { jobDone(St, id, runId, delayDeps) : id \in I, runId \in R, delayDeps \in D }

\* job.fail() by the workers of the runs R on the jobs I.
JobFailCalls(I, R) ==
  { jobFail(St, id, runId, fatal) : id \in I, runId \in R, fatal \in BOOLEAN }

JobPauseCalls == { jobPause(St, ids) : ids \in SUBSET Ids }

JobResumeCalls == { jobResume(St, ids) : ids \in SUBSET Ids }

JobCancelCalls ==
  { jobCancel(St, ids, antecedents, dependents) :
      ids \in SUBSET Ids, antecedents \in BOOLEAN, dependents \in BOOLEAN }

JobRestartCalls ==
  { jobRestart(St, ids, retries, foreverDate, antecedents, dependents) :
      ids \in SUBSET Ids, retries \in {0, 1}, antecedents \in BOOLEAN, dependents \in BOOLEAN }

JobRerunCalls ==
  { jobRerun(St, id, repeats, 0, foreverDate) : id \in Ids, repeats \in {0, 1} }

JobRemoveCalls == { jobRemove(St, ids) : ids \in SUBSET Ids }

JobSave == (\E s \in JobSaveCalls(SaveDocs) : Call(s)) /\ UNCHANGED nextRunId

JobResave == (\E s \in JobResaveCalls : Call(s)) /\ UNCHANGED nextRunId

JobReady == (\E s \in JobReadyCalls : Call(s)) /\ UNCHANGED nextRunId

\* getWork by a worker, with no more than n run ids handed out.
GetWorkWithin(n) ==
  /\ nextRunId <= n
  /\ \E s \in GetWorkCalls :
       /\ CallWithin(s, n)
       /\ nextRunId' = IF s.out # {} THEN nextRunId + 1 ELSE nextRunId

GetWork == GetWorkWithin(MaxRuns)

JobProgress ==
  (\E s \in JobProgressCalls(Ids, RunIds, {1, 2}, {1}) : Call(s)) /\ UNCHANGED nextRunId

JobLog == (\E s \in JobLogCalls : Call(s)) /\ UNCHANGED nextRunId

JobDone == (\E s \in JobDoneCalls(Ids, RunIds, {0, 1}) : Call(s)) /\ UNCHANGED nextRunId

JobFail == (\E s \in JobFailCalls(Ids, RunIds) : Call(s)) /\ UNCHANGED nextRunId

JobPause == (\E s \in JobPauseCalls : Call(s)) /\ UNCHANGED nextRunId

JobResume == (\E s \in JobResumeCalls : Call(s)) /\ UNCHANGED nextRunId

JobCancel == (\E s \in JobCancelCalls : Call(s)) /\ UNCHANGED nextRunId

JobRestart ==
  /\ \E s \in JobRestartCalls :
       /\ \A i \in DOMAIN s.jobs : s.jobs[i].retries <= MaxRetries
       /\ Call(s)
  /\ UNCHANGED nextRunId

JobRerun == (\E s \in JobRerunCalls : Call(s)) /\ UNCHANGED nextRunId

JobRemove == (\E s \in JobRemoveCalls : Call(s)) /\ UNCHANGED nextRunId

\* One run of the sweeper, fired by the interval timer.
Sweep == Call(promote_jobs(St)) /\ UNCHANGED nextRunId

\* _DDPMethod_startJobServer()
StartJobServer ==
  /\ stopped' = FALSE
  /\ UNCHANGED <<jobs, nextId, nextRunId, now, calls, pool>>

\* _DDPMethod_shutdownJobServer(): intake stops at once.
ShutdownJobServer ==
  /\ stopped' = TRUE
  /\ UNCHANGED <<jobs, nextId, nextRunId, now, calls, pool>>

\* The clock advances.
Tick ==
  /\ now < MaxTime
  /\ now' = now + 1
  /\ UNCHANGED <<jobs, nextId, nextRunId, stopped, calls, pool>>

\* ------------------------------------------------- the state machine
\* A new job collection: empty, the job server not started.
Init ==
  /\ jobs = <<>>
  /\ nextId = 1
  /\ nextRunId = 1
  /\ now = 0
  /\ stopped = TRUE
  /\ calls = <<>>
  /\ pool = <<>>

Next ==
  \/ JobSave
  \/ JobResave
  \/ JobReady
  \/ GetWork
  \/ JobProgress
  \/ JobLog
  \/ JobDone
  \/ JobFail
  \/ JobPause
  \/ JobResume
  \/ JobCancel
  \/ JobRestart
  \/ JobRerun
  \/ JobRemove
  \/ Sweep
  \/ StartJobServer
  \/ ShutdownJobServer
  \/ Tick

Spec == Init /\ [][Next]_vars

\* The results of every method call the state machine can make next.
AllCalls ==
  JobSaveCalls(SaveDocs) \cup JobResaveCalls \cup JobReadyCalls \cup GetWorkCalls
  \cup JobProgressCalls(Ids, RunIds, {1, 2}, {1}) \cup JobLogCalls
  \cup JobDoneCalls(Ids, RunIds, {0, 1}) \cup JobFailCalls(Ids, RunIds)
  \cup JobPauseCalls \cup JobResumeCalls \cup JobCancelCalls \cup JobRestartCalls
  \cup JobRerunCalls \cup JobRemoveCalls \cup {promote_jobs(St)}

\* ------------------------------------- concurrent getWork calls (C1)
\* getWork calls whose store operations (find, update, re-read) interleave.
Callers == 1..MaxCallers

\* A saved job the sweeper made ready.
ReadyJob(level) == [priority(Job("send", 1), level) EXCEPT !.status = "ready"]

\* A saved job whose time has not come.
WaitingJob == after(Job("send", 1), 1)

InitGetWork ==
  /\ jobs \in [Ids -> {ReadyJob(0), ReadyJob(1), WaitingJob}]
  /\ nextId = MaxJobs + 1
  /\ nextRunId = 1
  /\ now = 0
  /\ stopped = FALSE
  /\ calls = [c \in Callers |->
                [pc |-> "idle", maxJobs |-> 0, runId |-> null, found |-> {}, docs |-> <<>>]]
  /\ pool = <<>>

\* A step of the call of caller c that leaves the store in state s.
GW_Step(c, s, rec) ==
  /\ jobs' = s.jobs
  /\ calls' = [calls EXCEPT ![c] = rec]
  /\ UNCHANGED <<nextId, now, stopped, pool>>

\* The call begins: the server is running, the run id is generated.
GW_Call(c) ==
  /\ calls[c].pc = "idle"
  /\ ~stopped
  /\ nextRunId <= MaxRuns
  /\ \E maxJobs \in 1..MaxJobs :
       GW_Step(c, St, [calls[c] EXCEPT !.pc = "find", !.maxJobs = maxJobs,
                                       !.runId = nextRunId])
  /\ nextRunId' = nextRunId + 1

\* The find of the loop: no id found ends the call.
GW_Find(c) ==
  /\ calls[c].pc = "find"
  /\ \E ids \in getWork_find(jobs, Types, calls[c].maxJobs - Len(calls[c].docs)) :
       GW_Step(c, St, [calls[c] EXCEPT !.pc = IF ids = {} THEN "done" ELSE "update",
                                       !.found = IF ids = {} THEN @ ELSE ids])
  /\ UNCHANGED nextRunId

\* An update that ends the call when it matched nothing.
GW_Update_givesUp(c) ==
  /\ calls[c].pc = "update"
  /\ LET s == getWork_update(St, calls[c].found, calls[c].runId, 0)
     IN  GW_Step(c, s, [calls[c] EXCEPT !.pc = IF s.ret THEN "reread" ELSE "done"])
  /\ UNCHANGED nextRunId

\* The conditional update of the ids found.
GW_Update(c) ==
  /\ calls[c].pc = "update"
  /\ LET s == getWork_update(St, calls[c].found, calls[c].runId, 0)
     IN  GW_Step(c, s, [calls[c] EXCEPT !.pc = IF s.ret THEN "reread" ELSE "find"])
  /\ UNCHANGED nextRunId

\* The re-read of the ids found, by run id; the loop ends with maxJobs documents.
GW_Reread(c) ==
  /\ calls[c].pc = "reread"
  /\ LET docs == calls[c].docs \o SetToSeq(getWork_reread(jobs, calls[c].found, calls[c].runId))
     IN  GW_Step(c, St, [calls[c] EXCEPT !.docs = docs,
                                         !.pc = IF Len(docs) < calls[c].maxJobs
                                                THEN "find" ELSE "done"])
  /\ UNCHANGED nextRunId

NextGetWork ==
  \E c \in Callers : GW_Call(c) \/ GW_Find(c) \/ GW_Update(c) \/ GW_Reread(c)

SpecGetWork == InitGetWork /\ [][NextGetWork]_vars

RECURSIVE TotalDocs(_)
\* The number of documents the calls of the callers C returned so far.
TotalDocs(C) ==
  IF C = {} THEN 0
  ELSE LET c == CHOOSE x \in C : TRUE
       IN  Len(calls[c].docs) + TotalDocs(C \ {c})

\* C1: under every interleaving of the finds, updates and re-reads of
\* concurrent getWork calls, no job id is in the results of two calls, none
\* is twice in one result, and the calls together return no more jobs than
\* were ready (only getWork acts here, so the jobs that were ready at the
\* start are those ready or running now).
C1_AtMostOneClaimant ==
  /\ \A c1, c2 \in Callers :
       c1 # c2 => Range(calls[c1].docs) \cap Range(calls[c2].docs) = {}
  /\ \A c \in Callers : Cardinality(Range(calls[c].docs)) = Len(calls[c].docs)
  /\ TotalDocs(Callers) <= Cardinality({ i \in DOMAIN jobs : jobs[i].status \in {"ready", "running"} })

\* Two calls found the same job; one returned it, the other returned nothing.
C1_Witness ==
  \E c1, c2 \in Callers :
    /\ c1 # c2
    /\ calls[c1].pc = "done" /\ calls[c2].pc = "done"
    /\ calls[c1].found \cap calls[c2].found # {}
    /\ calls[c1].docs # <<>>
    /\ calls[c2].docs = <<>>

\* ------------------------------------------- the run id of a job (C2)
\* C2 as stated: in every reachable state a stored job has a non-null runId if
\* and only if its status is running.
C2_RunIdIffRunning ==
  \A i \in DOMAIN jobs : (jobs[i].runId # null) <=> (jobs[i].status = "running")

\* C2, amended: in every reachable state a stored job has a non-null runId if
\* and only if its status is running or completed (jobDone leaves the run id
\* of the completing run on the document; every other way out of running
\* sets it to null).
C2_RunIdIffRunningOrCompleted ==
  \A i \in DOMAIN jobs :
    (jobs[i].runId # null) <=> (jobs[i].status \in {"running", "completed"})

\* jobDone completed a job, jobFail failed another: the first keeps its run id.
C2_Witness ==
  \E i, j \in DOMAIN jobs :
    /\ jobs[i].status = "completed" /\ jobs[i].runId # null
    /\ jobs[j].status = "failed" /\ jobs[j].retried > 0 /\ jobs[j].runId = null

\* ---------------------------------------------- status transitions (C3)
\* The status changes C3 lists.
C3_Legal ==
  { <<"waiting", "ready">>, <<"ready", "running">>, <<"running", "completed">>,
    <<"running", "waiting">>, <<"running", "failed">>,
    <<"waiting", "paused">>, <<"ready", "paused">>, <<"paused", "waiting">>,
    <<"running", "cancelled">>, <<"ready", "cancelled">>, <<"waiting", "cancelled">>,
    <<"paused", "cancelled">>, <<"cancelled", "waiting">>, <<"failed", "waiting">> }

\* C3: the status of every stored job is one of the seven, and every status
\* change a store update of any method call makes, from any reachable state,
\* is one of the listed ones; in particular none leaves completed.
C3_LegalTransitions ==
  /\ \A i \in DOMAIN jobs : jobs[i].status \in jobStatuses
  /\ \A s \in AllCalls :
       /\ \A t \in s.tr : <<t[1], t[2]>> \in C3_Legal
       /\ \A i \in DOMAIN jobs :
            jobs[i].status = "completed" =>
              (i \in DOMAIN s.jobs => s.jobs[i].status = "completed")

\* A job was claimed, failed for good, and was restarted; another completed.
C3_Witness ==
  \E i, j \in DOMAIN jobs :
    /\ jobs[i].status = "waiting" /\ jobs[i].retried > 0
    /\ jobs[j].status = "completed"

\* ------------------------------------------------------ stale runs (C4)
\* C4: from every reachable state, jobDone, jobFail and jobProgress called with
\* a run id that is not the job's current one, or on a job that is not
\* running (or not stored), return false and change nothing.
C4_StaleRunRejected ==
  \A id \in Ids, runId \in RunIds :
    ~(id \in DOMAIN jobs /\ jobs[id].runId = runId /\ jobs[id].status = "running") =>
      /\ \A s \in JobDoneCalls({id}, {runId}, {0, 1}) \cup JobFailCalls({id}, {runId})
                  \cup JobProgressCalls({id}, {runId}, {0, 1}, {1, 2}) :
           /\ ~s.ret
           /\ ~s.err
           /\ s.jobs = jobs
           /\ s.nextId = nextId

\* A job is in its second run: the run id of its first run is stale; another
\* job was cancelled while its worker still holds its run id.
C4_Witness ==
  \E i, j \in DOMAIN jobs :
    /\ jobs[i].status = "running" /\ jobs[i].retried = 2
    /\ jobs[j].status = "cancelled" /\ jobs[j].retried = 1

\* ------------------------------------------------ dependency gating (C6)
\* C6: a job whose depends names a stored antecedent that is not completed is
\* neither ready nor running (a forced jobReady empties depends).
C6_DependencyGating ==
  \A i \in DOMAIN jobs :
    (\E a \in Range(jobs[i].depends) : a \in DOMAIN jobs /\ jobs[a].status # "completed")
      => jobs[i].status \notin {"ready", "running"}

\* The server runs, the antecedent was claimed and the dependent job waits.
C6_Witness ==
  \E i, a \in DOMAIN jobs :
    /\ ~stopped
    /\ a \in Range(jobs[i].depends)
    /\ jobs[a].status = "running"
    /\ jobs[i].status = "waiting"
    /\ jobs[i].after <= now

\* ------------------------------------------- a started job server
\* The job collection after startJobServer.
InitStarted ==
  /\ jobs = <<>>
  /\ nextId = 1
  /\ nextRunId = 1
  /\ now = 0
  /\ stopped = FALSE
  /\ calls = <<>>
  /\ pool = <<>>

\* ------------------------------------------------ retry exhaustion (C5)
\* Jobs saved with job.retry({retries: k - 1}): the stored retries is k; the
\* retry deadline is never reached.
RetryDocs ==
  { retry(Job("send", 1), k - 1, wait, backoff, foreverDate) :
      k \in 1..MaxChain, wait \in {0, 1}, backoff \in jobRetryBackoffMethods }

JobSaveRetry == (\E s \in JobSaveCalls(RetryDocs) : Call(s)) /\ UNCHANGED nextRunId

GetWorkChain == GetWorkWithin(MaxChain)

JobFailChain ==
  (\E s \in JobFailCalls(Ids, 1..MaxChain) : Call(s)) /\ UNCHANGED nextRunId

NextRetry == JobSaveRetry \/ Sweep \/ GetWorkChain \/ JobFailChain \/ Tick

SpecRetry == InitStarted /\ [][NextRetry]_vars

\* C5: a job saved with retries = k (kept in repeatRetries) and a retry
\* deadline that is never reached: jobFail on its j-th run (retried = j, after
\* j - 1 failures) leaves it waiting if j < k and failed if j = k; a fatal
\* jobFail leaves it failed whatever the budget.
C5_RetryExhaustion ==
  \A id \in DOMAIN jobs, runId \in 1..MaxChain :
    (jobs[id].status = "running" /\ jobs[id].runId = runId) =>
      /\ jobs[id].retried <= jobs[id].repeatRetries
      /\ jobFail(St, id, runId, FALSE).ret
      /\ jobFail(St, id, runId, FALSE).jobs[id].status =
           (IF jobs[id].retried < jobs[id].repeatRetries THEN "waiting" ELSE "failed")
      /\ jobFail(St, id, runId, TRUE).jobs[id].status = "failed"

\* A job saved with retries = 2 waited after its first failure and is failed
\* after its second; another, saved with retries = 3, is in its second run.
C5_Witness ==
  \E i, j \in DOMAIN jobs :
    /\ jobs[i].repeatRetries = 2 /\ jobs[i].retried = 2 /\ jobs[i].status = "failed"
    /\ jobs[j].repeatRetries = 3 /\ jobs[j].retried = 2 /\ jobs[j].status = "running"

\* ------------------------------------------- a missing antecedent (C8)
\* Jobs B (data 2) saved with depends naming an id that is not stored (of no
\* job at all, or of a job removed since), among jobs without dependencies
\* (data 1).
MissingDocs ==
  { depends(Job("send", 2), <<x>>) :
      x \in ((1..(nextId - 1)) \cup {MissingId}) \ DOMAIN jobs }

PlainDocs == { Job("send", 1) }

JobSaveMissing ==
  (\E s \in JobSaveCalls(MissingDocs \cup PlainDocs) : Call(s)) /\ UNCHANGED nextRunId

JobReadyUnforced ==
  /\ \E ids \in SUBSET Ids, time \in {now, foreverDate} : Call(jobReady(St, ids, FALSE, time))
  /\ UNCHANGED nextRunId

NextMissing ==
  \/ JobSaveMissing
  \/ Sweep
  \/ JobReadyUnforced
  \/ GetWork
  \/ JobDone
  \/ JobFail
  \/ JobRemove
  \/ Tick

SpecMissing == InitStarted /\ [][NextMissing]_vars

\* C8 as stated: a job saved with depends naming a missing id remains waiting.
C8_MissingStaysWaiting ==
  \A i \in DOMAIN jobs : jobs[i].data = 2 => jobs[i].status = "waiting"

\* C8, amended: a job saved with depends naming a missing id is cancelled by
\* the save (which returns no id) and stays cancelled under the sweeper and
\* unforced jobReady: it is never waiting, ready or running, and never ran.
C8_MissingIsCancelled ==
  /\ \A i \in DOMAIN jobs :
       jobs[i].data = 2 => jobs[i].status = "cancelled" /\ jobs[i].retried = 0
  /\ \A s \in JobSaveCalls(MissingDocs) :
       ~s.ret /\ s.out = {} /\ s.jobs[nextId].status = "cancelled"

\* B was saved naming the id of a job that had completed and was removed; the
\* sweeper could have run since.
C8_Witness ==
  /\ 1 \notin DOMAIN jobs
  /\ 2 \in DOMAIN jobs
  /\ jobs[2].data = 2
  /\ jobs[2].depends = <<1>>
  /\ jobs[2].after < now

\* ----------------------------------------------- failure cascade (C7)
\* jobSave of a job D that depends on the running job A (id 1, run 1), and
\* jobFail of A by its worker, their store operations interleaved; the
\* sweeper and a worker's getWork run in between.
RunningJob(k) ==
  [retry(Job("send", 1), k, 0, "constant", foreverDate)
     EXCEPT !.status = "running", !.runId = 1, !.retries = @ - 1, !.retried = 1]

InitCascade ==
  /\ jobs \in { [i \in {1} |-> RunningJob(k)] : k \in {0, 1} }
  /\ nextId = 2
  /\ nextRunId = 2
  /\ now = 0
  /\ stopped = FALSE
  /\ calls = [save |-> [pc |-> "idle", id |-> null, deps |-> <<>>, found |-> <<>>],
              fail |-> [pc |-> "idle", fatal |-> FALSE, doc |-> <<>>,
                        looked |-> FALSE, found |-> {}]]
  /\ pool = <<>>

\* A step of the call c that leaves the store in state s.
Step(c, s, rec) ==
  /\ jobs' = s.jobs
  /\ nextId' = s.nextId
  /\ calls' = [calls EXCEPT ![c] = rec]
  /\ UNCHANGED <<nextRunId, now, stopped, pool>>

\* jobSave(D): the checks and adjustments, then the insert.
SV_Insert ==
  /\ calls.save.pc = "idle"
  /\ \E p \in BOOLEAN :
       LET d == depends(Job("send", 2), <<1>>)
           doc == jobSave_adjust(IF p THEN pause(d) ELSE d)
       IN  Step("save", insertAsync(St, doc),
                [calls.save EXCEPT !.pc = "checkDeps", !.id = nextId, !.deps = doc.depends])

\* _checkDeps(D): the find of the antecedents.
SV_CheckDepsFind ==
  /\ calls.save.pc = "checkDeps"
  /\ Step("save", St, [calls.save EXCEPT !.pc = "act",
                                         !.found = checkDeps_find(jobs, calls.save.deps)])

\* _checkDeps(D): what it does with what it found.
SV_CheckDepsAct ==
  /\ calls.save.pc = "act"
  /\ LET s == checkDeps_act(St, calls.save.id, calls.save.deps, calls.save.found)
     IN  Step("save", s, [calls.save EXCEPT !.pc = IF s.ret THEN "ready" ELSE "done"])

\* jobSave(D): jobReady(D) when the dependency check passed.
SV_Ready ==
  /\ calls.save.pc = "ready"
  /\ Step("save", jobReady(St, {calls.save.id}, FALSE, now), [calls.save EXCEPT !.pc = "done"])

\* jobFail(A): the findOne of the running job.
FL_Find ==
  /\ calls.fail.pc = "idle"
  /\ \E fatal \in BOOLEAN :
       Step("fail", St,
            IF findRunning(jobs, 1, 1) = {}
            THEN [calls.fail EXCEPT !.pc = "done"]
            ELSE [calls.fail EXCEPT !.pc = "update", !.fatal = fatal, !.doc = <<jobs[1]>>])

\* jobFail(A): the conditional update.
FL_Update ==
  /\ calls.fail.pc = "update"
  /\ LET doc == calls.fail.doc[1]
         s == jobFail_update(St, 1, 1, calls.fail.fatal, doc)
         newStatus == jobFail_newStatus(doc, calls.fail.fatal, jobFail_after(doc))
     IN  Step("fail", s, [calls.fail EXCEPT !.pc = IF newStatus = "failed" /\ s.ret
                                                  THEN "dependents" ELSE "done"])

\* jobFail(A): the find of the jobs that depend on A.
FL_Dependents ==
  /\ calls.fail.pc = "dependents"
  /\ Step("fail", St, [calls.fail EXCEPT !.pc = "cancel", !.looked = TRUE,
                                         !.found = jobFail_dependents(jobs, 1)])

\* jobFail(A): jobCancel of each dependent found.
FL_Cancel ==
  /\ calls.fail.pc = "cancel"
  /\ Step("fail", CancelEach(St, SetToSeq(calls.fail.found)), [calls.fail EXCEPT !.pc = "done"])

NextCascade ==
  \/ SV_Insert
  \/ SV_CheckDepsFind
  \/ SV_CheckDepsAct
  \/ SV_Ready
  \/ FL_Find
  \/ FL_Update
  \/ FL_Dependents
  \/ FL_Cancel
  \/ Sweep
  \/ GetWork

SpecCascade == InitCascade /\ [][NextCascade]_vars

\* C7: once D's jobSave and A's jobFail have both returned, however their
\* store operations interleaved, if A is failed then D is cancelled; and D is
\* never ready, never running and was never claimed.
C7_FailureCascade ==
  /\ (calls.save.pc = "done" /\ calls.fail.pc = "done" /\ jobs[1].status = "failed")
       => jobs[calls.save.id].status = "cancelled"
  /\ \A i \in DOMAIN jobs \ {1} :
       jobs[i].status \notin {"ready", "running"} /\ jobs[i].retried = 0

\* D was inserted after jobFail looked for A's dependents and found none:
\* D's own dependency check cancelled it.
C7_Witness ==
  /\ calls.save.pc = "done"
  /\ calls.fail.pc = "done"
  /\ calls.fail.looked
  /\ calls.fail.found = {}
  /\ jobs[1].status = "failed"
  /\ jobs[2].status = "cancelled"

\* ---------------------------------------------------- recurrences (C9)
\* Jobs saved with job.repeat({repeats: k, wait, until}); data holds k.
RepeatDocs ==
  { repeat(Job("send", k), k, wait, until) :
      k \in 0..(MaxChain - 1), wait \in {0, 1}, until \in {1, foreverDate} }

\* The producer saves one job; the other jobs of the store are its recurrences.
JobSaveRepeat ==
  /\ nextId = 1
  /\ \E s \in JobSaveCalls(RepeatDocs) : CallWithin(s, MaxChain)
  /\ UNCHANGED nextRunId

JobDoneChain ==
  /\ \E s \in JobDoneCalls(1..MaxChain, 1..MaxChain, {0}) : CallWithin(s, MaxChain)
  /\ UNCHANGED nextRunId

SweepChain == CallWithin(promote_jobs(St), MaxChain) /\ UNCHANGED nextRunId

NextRepeat == JobSaveRepeat \/ SweepChain \/ GetWorkChain \/ JobDoneChain \/ Tick

SpecRepeat == InitStarted /\ [][NextRepeat]_vars

\* C9: jobDone by the worker of a running job completes it; if the job has
\* repeats > 0 and repeatUntil - repeatWait >= now, it inserts exactly one job,
\* of the same type and data, with repeated one more, repeats one less,
\* retried 0, a null runId and after = now + repeatWait; if repeats = 0 it
\* inserts none.  Every job of a chain saved with repeats = k has
\* repeats + repeated = k: the chain ends with the k-th recurrence.
C9_Recurrence ==
  /\ \A i \in DOMAIN jobs : jobs[i].repeats + jobs[i].repeated = jobs[i].data
  /\ \A id \in DOMAIN jobs, runId \in 1..MaxChain :
       (jobs[id].status = "running" /\ jobs[id].runId = runId) =>
         LET d == jobs[id]
             s == jobDone(St, id, runId, 0)
         IN  /\ s.ret
             /\ s.jobs[id].status = "completed"
             /\ \A i \in DOMAIN jobs \ {id} : s.jobs[i] = jobs[i]
             /\ IF d.repeats > 0 /\ d.repeatUntil - d.repeatWait >= now
                THEN /\ DOMAIN s.jobs = DOMAIN jobs \cup {nextId}
                     /\ s.jobs[nextId].type = d.type
                     /\ s.jobs[nextId].data = d.data
                     /\ s.jobs[nextId].repeated = d.repeated + 1
                     /\ s.jobs[nextId].repeats = d.repeats - 1
                     /\ s.jobs[nextId].retried = 0
                     /\ s.jobs[nextId].runId = null
                     /\ s.jobs[nextId].after = now + d.repeatWait
                ELSE d.repeats = 0 => DOMAIN s.jobs = DOMAIN jobs

\* A job saved with repeats = 2 and its two recurrences, all completed.
C9_Witness ==
  /\ DOMAIN jobs = 1..3
  /\ \A i \in 1..3 : /\ jobs[i].data = 2
                     /\ jobs[i].repeated = i - 1
                     /\ jobs[i].repeats = 3 - i
                     /\ jobs[i].status = "completed"

\* ------------------------------------------------------- progress (C10)
JobProgressAll ==
  /\ \E s \in JobProgressCalls(Ids, RunIds, (-1)..MaxTotal, (-1)..MaxTotal) : Call(s)
  /\ UNCHANGED nextRunId

JobSavePlain == (\E s \in JobSaveCalls(PlainDocs) : Call(s)) /\ UNCHANGED nextRunId

NextProgress == JobSavePlain \/ Sweep \/ GetWork \/ JobProgressAll \/ JobFail

SpecProgress == InitStarted /\ [][NextProgress]_vars

\* C10: jobProgress(id, runId, completed, total) returns true only when
\* 0 <= completed <= total, and then the stored progress is completed, total
\* and percent = 100 * completed / total; with completed > total or a negative
\* argument it throws and changes nothing.  Every stored progress has
\* 0 <= completed <= total and 0 <= percent <= 100.
C10_Progress ==
  /\ \A i \in DOMAIN jobs :
       LET g == jobs[i].progress
       IN  /\ 0 <= g.completed /\ g.completed <= g.total
           /\ 0 <= g.percent[1] /\ g.percent[1] <= 100 * g.percent[2]
  /\ \A id \in Ids, runId \in RunIds, completed \in (-1)..MaxTotal, total \in (-1)..MaxTotal :
       LET s == jobProgress(St, id, runId, completed, total)
       IN  /\ s.ret =>
                /\ 0 <= completed /\ completed <= total
                /\ s.jobs[id].progress.completed = completed
                /\ s.jobs[id].progress.total = total
                /\ s.jobs[id].progress.percent[1] * total
                     = 100 * completed * s.jobs[id].progress.percent[2]
           /\ (completed > total \/ completed < 0 \/ total < 0) =>
                s.err /\ ~s.ret /\ s.jobs = jobs

\* A running job whose worker reported 2 of 3.
C10_Witness ==
  \E i \in DOMAIN jobs :
    /\ jobs[i].status = "running"
    /\ jobs[i].progress = [completed |-> 2, total |-> 3, percent |-> <<200, 3>>]

\* ------------------------------------------------ the worker pool (JobQueue)
\* A pool is a record: its options (concurrency, payload, prefetch, polling:
\* pollInterval < Job.forever), the fields of the JobQueue object (tasks,
\* workers, taskNumber, stoppingGetWork, stoppingTasks, interval,
\* getWorkOutstanding, paused), the event loop it runs on (immediates: the
\* functions given to setImmediate, in order; requests: the getWork calls in
\* flight, each with its maxJobs; failing: the jobs the loop of _failJobs has
\* yet to fail, stopTasks: the array _stop's closure holds) and what an
\* observer of the pool has seen (level: the level of the shutdown call,
\* callbacks: how often the shutdown callback ran, held: whether it ran with
\* a job queued or a task in flight, lateClaims: whether getWork was called
\* after shutdown, dispatched: the jobs given to the work function, failed:
\* the jobs the pool called fail on, failedRunning: whether it did so with a
\* task in flight, erred: whether a getWork call returned an error, thrown and
\* reported and uncaught: what happened to an error of the work function).
\* A claimed job is the pair <<id, runId>> its Job handle holds.

\* JobQueue.running()
running(q) == Cardinality(DOMAIN q.workers)

\* JobQueue.length()
length(q) == Len(q.tasks)

\* The jobs inside the tasks in flight, in the order of Object.entries.
RECURSIVE workerJobs(_, _)
workerJobs(q, T) ==
  IF T = {} THEN <<>>
  ELSE LET t == CHOOSE x \in T : \A y \in T : x <= y
       IN  q.workers[t] \o workerJobs(q, T \ {t})

\* setImmediate(f)
setImmediate(q, f) == [q EXCEPT !.immediates = Append(@, f)]

\* The shutdown callback the caller supplied.
callback(q) ==
  [q EXCEPT !.callbacks = @ + 1,
            !.held = @ \/ running(q) # 0 \/ length(q) # 0]

\* _failJobs(tasks, callback), up to its first await.
failJobs(q, tasks) ==
  IF Len(tasks) = 0 THEN setImmediate(q, "callback")
  ELSE [q EXCEPT !.failing = tasks,
                 !.failedRunning = @ \/ running(q) # 0]

\* A _waitForTasks that does not wait.
waitForTasks_noWait(q, f) == setImmediate(q, f)

\* _waitForTasks(callback), callback being the function named f.
waitForTasks(q, f) ==
  IF running(q) # 0 THEN [q EXCEPT !.stoppingTasks = f] ELSE setImmediate(q, f)

\* _stopGetWork(callback), callback being the function named f.
stopGetWork(q, f) ==
  LET q1 == [q EXCEPT !.interval = FALSE]
  IN  IF q1.getWorkOutstanding THEN [q1 EXCEPT !.stoppingGetWork = f]
      ELSE setImmediate(q1, f)

\* A _getWork guard that forgets the claim in flight.
getWork_guard_pausedOnly(q) == q.paused

\* The guard of _getWork: "don't reenter, or run when paused or stopping".
getWork_guard(q) == q.getWorkOutstanding \/ q.paused

\* A claim size that forgets the jobs already queued.
numJobsToGet_ignoresQueue(q) == q.prefetch + q.payload * (q.concurrency - running(q))

\* The claim size of _getWork.
numJobsToGet(q) == q.prefetch + q.payload * (q.concurrency - running(q)) - length(q)

\* JobQueue._getWork(), up to its await of Job.getWork.
pool_getWork(q) ==
  IF getWork_guard(q) \/ numJobsToGet(q) <= 0 THEN q
  ELSE [q EXCEPT !.getWorkOutstanding = TRUE,
                 !.requests = Append(@, numJobsToGet(q)),
                 !.lateClaims = @ \/ q.level # "none"]

\* A _process guard that forgets the slots.
process_guard_anySlot(q) == ~q.paused /\ length(q) > 0

\* The guard of _process.
process_guard(q) == ~q.paused /\ running(q) < q.concurrency /\ length(q) > 0

\* The number of jobs _process takes from the queue for one task.
process_size(q) == IF q.payload > 1 THEN Min(q.payload, length(q)) ELSE 1

\* JobQueue._process(): the work function is invoked with the task; `throws`:
\* it raises an error, which nothing in _process catches.
pool_process(q, throws) ==
  IF ~process_guard(q) THEN q
  ELSE LET n == process_size(q)
           job == SubSeq(q.tasks, 1, n)
       IN  [q EXCEPT !.tasks = SubSeq(@, n + 1, Len(@)),
                     !.workers = [t \in DOMAIN @ \cup {q.taskNumber} |->
                                    IF t = q.taskNumber THEN job ELSE @[t]],
                     !.taskNumber = @ + 1,
                     !.dispatched = @ \cup Range(job),
                     !.thrown = @ \/ throws,
                     !.uncaught = @ \/ throws]

\* The jobs a hard shutdown fails, without those inside the tasks in flight.
hard_tasks_queuedOnly(q) == q.tasks

\* The jobs a hard shutdown fails: the queued ones, then those inside the
\* tasks in flight.
hard_tasks(q) == q.tasks \o workerJobs(q, DOMAIN q.workers)

\* The functions the pool gives to setImmediate or keeps in _stoppingGetWork
\* and _stoppingTasks, by name: _getWork, _process, the closures of _hard,
\* _stop (and the one it gives to _waitForTasks) and _soft, and the shutdown
\* callback.
pool_run(q, f, throws) ==
  CASE f = "getWork" -> pool_getWork(q)
    [] f = "process" -> pool_process(q, throws)
    [] f = "hard" -> failJobs([q EXCEPT !.tasks = <<>>], hard_tasks(q))
    [] f = "stop" -> waitForTasks([q EXCEPT !.tasks = <<>>, !.stopTasks = q.tasks],
                                  "stopFail")
    [] f = "soft" -> waitForTasks(q, "callback")
    [] f = "stopFail" -> failJobs(q, q.stopTasks)
    [] f = "callback" -> callback(q)

\* The completion signal of task t: `next` in _process.
pool_next(q, t) ==
  LET q1 == [q EXCEPT !.workers = [u \in DOMAIN @ \ {t} |-> @[u]]]
  IN  IF q1.stoppingTasks # "none" /\ running(q1) = 0 /\ length(q1) = 0
      THEN pool_run(q1, q1.stoppingTasks, FALSE)
      ELSE setImmediate(setImmediate(q1, "process"), "getWork")

RECURSIVE setImmediateEach(_, _, _)
\* setImmediate(f) n times.
setImmediateEach(q, f, n) ==
  IF n <= 0 THEN q ELSE setImmediateEach(setImmediate(q, f), f, n - 1)

\* _getWork after its await: Job.getWork returned the array `got`.
pool_getWork_result(q, got) ==
  LET q1 == [q EXCEPT !.getWorkOutstanding = FALSE,
                      !.requests = Tail(@),
                      !.tasks = @ \o got]
      q2 == IF q1.stoppingGetWork = "none"
            THEN setImmediateEach(q1, "process", Len(got))
            ELSE pool_run(q1, q1.stoppingGetWork, FALSE)
  IN  q2

\* _getWork after its await: Job.getWork threw.
pool_getWork_error(q) ==
  [q EXCEPT !.getWorkOutstanding = FALSE, !.requests = Tail(@), !.erred = TRUE]

\* JobQueue.pause()
pool_pause(q) ==
  IF q.paused THEN q
  ELSE [q EXCEPT !.paused = TRUE, !.interval = IF q.polling THEN FALSE ELSE @]

\* JobQueue.resume()
pool_resume(q) ==
  IF ~q.paused THEN q
  ELSE setImmediateEach(
         setImmediate([q EXCEPT !.paused = FALSE,
                                !.interval = IF q.polling THEN TRUE ELSE @],
                      "getWork"),
         "process", q.concurrency)

\* JobQueue.trigger()
pool_trigger(q) == IF q.paused THEN q ELSE setImmediate(q, "getWork")

\* JobQueue.shutdown({level}, callback)
pool_shutdown(q, level) ==
  LET q1 == [q EXCEPT !.level = level]
  IN  CASE level = "hard" -> stopGetWork([q1 EXCEPT !.paused = TRUE], "hard")
        [] level = "soft" -> stopGetWork(q1, "soft")
        [] OTHER -> stopGetWork([q1 EXCEPT !.paused = TRUE], "stop")

\* new JobQueue(root, type, {concurrency, payload, prefetch, pollInterval}, worker)
JobQueue(concurrency, payload, prefetch, polling) ==
  pool_resume(
    [ concurrency |-> concurrency, payload |-> payload, prefetch |-> prefetch,
      polling |-> polling,
      tasks |-> <<>>, workers |-> <<>>, taskNumber |-> 0,
      stoppingGetWork |-> "none", stoppingTasks |-> "none",
      interval |-> FALSE, getWorkOutstanding |-> FALSE, paused |-> TRUE,
      immediates |-> <<>>, requests |-> <<>>, failing |-> <<>>, stopTasks |-> <<>>,
      level |-> "none", callbacks |-> 0, held |-> FALSE, lateClaims |-> FALSE,
      dispatched |-> {}, failed |-> {}, failedRunning |-> FALSE, erred |-> FALSE,
      thrown |-> FALSE, reported |-> FALSE, uncaught |-> FALSE ])

\* ------------------------------------------------- a pool at work
\* A started job server with MaxPoolJobs ready jobs of one type and a pool
\* just constructed on it, for every choice of its options.
InitPool ==
  /\ jobs = [i \in 1..MaxPoolJobs |-> ReadyJob(0)]
  /\ nextId = MaxPoolJobs + 1
  /\ nextRunId = 1
  /\ now = 0
  /\ stopped = FALSE
  /\ calls = <<>>
  /\ pool \in { JobQueue(c, p, f, polling) :
                  c \in 0..MaxConcurrency, p \in 0..MaxPayload,
                  f \in 0..MaxPrefetch, polling \in BOOLEAN }

\* A step of the pool that leaves the store alone.
PoolStep(q) ==
  /\ pool' = q
  /\ UNCHANGED <<jobs, nextId, nextRunId, now, stopped, calls>>

\* The event loop runs the next function given to setImmediate; a work
\* function it invokes raises an error or not, as W allows.
RunImmediate(W) ==
  /\ pool.immediates # <<>>
  /\ LET f == Head(pool.immediates)
         q == [pool EXCEPT !.immediates = Tail(@)]
     IN  \E throws \in W :
           /\ throws => (f = "process" /\ process_guard(q))
           /\ PoolStep(pool_run(q, f, throws))

\* The poll timer fires.
PollTimer ==
  /\ pool.interval
  /\ PoolStep(pool_getWork(pool))

\* The getWork call in flight runs on the server and returns the jobs it
\* claimed to the pool, as Job handles.
GetWorkReturns ==
  /\ pool.requests # <<>>
  /\ \E ids \in getWork_find(jobs, Types, Head(pool.requests)) :
       LET s == getWork(St, Types, Head(pool.requests), 0, nextRunId, ids)
           got == [k \in 1..Cardinality(s.out) |-> <<SetToSeq(s.out)[k], nextRunId>>]
       IN  /\ jobs' = s.jobs
           /\ nextRunId' = IF s.out # {} THEN nextRunId + 1 ELSE nextRunId
           /\ pool' = pool_getWork_result(pool, got)
  /\ UNCHANGED <<nextId, now, stopped, calls>>

\* The getWork call in flight fails (a transport error): Job.getWork throws.
GetWorkThrows ==
  /\ pool.requests # <<>>
  /\ PoolStep(pool_getWork_error(pool))

RECURSIVE DoneEach(_, _)
\* job.done() by the work function on each job of its task.
DoneEach(s, hs) ==
  IF hs = <<>> THEN s
  ELSE DoneEach(jobDone(s, Head(hs)[1], Head(hs)[2], 0), Tail(hs))

\* The work function of task t calls done on its jobs and signals completion.
TaskCompletes ==
  \E t \in DOMAIN pool.workers :
    /\ jobs' = DoneEach(St, pool.workers[t]).jobs
    /\ pool' = pool_next(pool, t)
    /\ UNCHANGED <<nextId, nextRunId, now, stopped, calls>>

\* The loop of _failJobs: the call job.fail('Worker shutdown') in flight runs
\* on the server and returns, or throws (ok = FALSE), which the loop logs;
\* after the last job the loop invokes the shutdown callback.
FailReturns ==
  /\ pool.failing # <<>>
  /\ \E ok \in BOOLEAN :
       LET h == Head(pool.failing)
           q == [pool EXCEPT !.failing = Tail(@),
                             !.failed = @ \cup {<<h[1], h[2], ok>>}]
       IN  /\ jobs' = IF ok THEN jobFail(St, h[1], h[2], FALSE).jobs ELSE jobs
           /\ pool' = IF q.failing = <<>> THEN callback(q) ELSE q
  /\ UNCHANGED <<nextId, nextRunId, now, stopped, calls>>

\* The user of the pool, before it shuts the pool down.
PoolPause == pool.level = "none" /\ ~pool.paused /\ PoolStep(pool_pause(pool))

PoolResume ==
  /\ pool.level = "none"
  /\ pool.paused
  /\ Len(pool.immediates) <= MaxPending
  /\ PoolStep(pool_resume(pool))

PoolTrigger ==
  /\ pool.level = "none"
  /\ Len(pool.immediates) <= MaxPending
  /\ PoolStep(pool_trigger(pool))

PoolShutdown ==
  /\ pool.level = "none"
  /\ \E level \in {"hard", "normal", "soft"} : PoolStep(pool_shutdown(pool, level))

NextPool ==
  \/ RunImmediate({FALSE})
  \/ PollTimer
  \/ GetWorkReturns
  \/ GetWorkThrows
  \/ TaskCompletes
  \/ FailReturns
  \/ PoolPause
  \/ PoolResume
  \/ PoolTrigger
  \/ PoolShutdown

SpecPool == InitPool /\ [][NextPool]_vars

\* ------------------------------------------- jobs a pool holds (C12)
\* The claimed jobs a pool holds: those in its queue and those inside the
\* tasks in flight.
holds(q) == length(q) + Len(workerJobs(q, DOMAIN q.workers))

C13_OneClaimOutstanding ==
  /\ Len(pool.requests) <= 1
  /\ pool.getWorkOutstanding <=> (pool.requests # <<>>)
  /\ pool.getWorkOutstanding => pool_getWork(pool) = pool

\* A getWork call returned an error and a later one is in flight, while a
\* triggered _getWork waits in the event loop.
C13_Witness ==
  /\ pool.erred
  /\ pool.requests # <<>>
  /\ pool.immediates # <<>>
  /\ Head(pool.immediates) = "getWork"

\* ------------------------------------------------ tasks in flight (C14)
\* C14: a pool has at most `concurrency` tasks in flight, each with at least
\* one and at most max(1, payload) jobs; jobs leave the queue in the order
\* they arrived (claims are numbered by their run ids: no job of a task
\* arrived after a job of a later task or after a queued job, and the queue
\* is in arrival order); _process takes the jobs of a task from the head of
\* the queue, and does nothing while the pool is paused.
C14_TasksInFlight ==
  /\ running(pool) <= pool.concurrency
  /\ \A t \in DOMAIN pool.workers :
       /\ Len(pool.workers[t]) >= 1
       /\ Len(pool.workers[t]) <= Max(1, pool.payload)
       /\ \A u \in DOMAIN pool.workers :
            t < u => \A a \in Range(pool.workers[t]), b \in Range(pool.workers[u]) :
                       a[2] <= b[2]
       /\ \A a \in Range(pool.workers[t]), b \in Range(pool.tasks) : a[2] <= b[2]
  /\ \A k \in 1..(Len(pool.tasks) - 1) : pool.tasks[k][2] <= pool.tasks[k + 1][2]
  /\ LET q == pool_process(pool, FALSE)
     IN  /\ pool.paused => q = pool
         /\ q # pool =>
              /\ DOMAIN q.workers = DOMAIN pool.workers \cup {pool.taskNumber}
              /\ pool.tasks = q.workers[pool.taskNumber] \o q.tasks

\* Two tasks in flight in a pool with concurrency 2 and payload 2: the first
\* has two jobs, the second the one that was left.
C14_Witness ==
  /\ pool.concurrency = 2 /\ pool.payload = 2
  /\ \E t, u \in DOMAIN pool.workers :
       t < u /\ Len(pool.workers[t]) = 2 /\ Len(pool.workers[u]) = 1

\* --------------------------------------------- the shutdown callback (C15)
\* Nothing of the pool is left to happen: the event loop is empty, no getWork
\* or fail call is in flight and every work function has signalled completion.
Quiescent(q) ==
  /\ q.immediates = <<>>
  /\ q.requests = <<>>
  /\ q.failing = <<>>
  /\ DOMAIN q.workers = {}

\* C15: after a shutdown call, at any level, the callback is never invoked
\* twice, and once every work function has signalled completion and every
\* getWork and fail call has returned, with a result or with an error, it has
\* been invoked once.
C15_CallbackExactlyOnce ==
  pool.level # "none" =>
    /\ pool.callbacks <= 1
    /\ Quiescent(pool) => pool.callbacks = 1

\* ------------------------------------------------- soft shutdown (C16)
\* C16: a soft shutdown invokes its callback only when no job is queued and
\* no task is in flight, and the pool calls fail on no job.
C16_SoftDrained ==
  pool.level = "soft" =>
    /\ ~pool.held
    /\ pool.failed = {}
    /\ pool.failing = <<>>

\* ------------------------------------- no claim after shutdown (C17)
\* C17: once shutdown was called, at any level, the pool calls getWork no
\* more.
C17_NoClaimAfterShutdown == ~pool.lateClaims

\* ----------------------------------------------- normal shutdown (C18)
\* The jobs the pool called fail on.
Failed(q) == { <<f[1], f[2]>> : f \in q.failed }

\* The ids of the jobs that were claimed (getWork counts the claim in
\* `retried`).
Claimed == { i \in DOMAIN jobs : jobs[i].retried > 0 }

NextPoolThrow ==
  \/ RunImmediate(BOOLEAN)
  \/ PollTimer
  \/ GetWorkReturns
  \/ GetWorkThrows
  \/ TaskCompletes
  \/ FailReturns
  \/ PoolPause
  \/ PoolResume
  \/ PoolTrigger
  \/ PoolShutdown

SpecPoolThrow == InitPool /\ [][NextPoolThrow]_vars

\* C20: an error thrown by the work function is caught by the pool and
\* reported to errorCallback; it does not propagate out of _process.
C20_WorkerErrorCaught ==
  pool.thrown => (pool.reported /\ ~pool.uncaught)

\* ------------------------------------------ cancel without options (C21)
RECURSIVE Downstream(_, _, _)
\* ids and the jobs in one of `statuses` that depend on them, transitively.
Downstream(js, ids, statuses) ==
  LET d == { i \in DOMAIN js : js[i].status \in statuses /\ Range(js[i].depends) \cap ids # {} }
  IN  IF d \subseteq ids THEN ids ELSE Downstream(js, ids \cup d, statuses)

RECURSIVE Upstream(_, _, _)
\* ids and the jobs in one of `statuses` they depend on, transitively.
Upstream(js, ids, statuses) ==
  LET a == { i \in DOMAIN js : /\ js[i].status \in statuses
                               /\ \E j \in ids \cap DOMAIN js : i \in Range(js[j].depends) }
  IN  IF a \subseteq ids THEN ids ELSE Upstream(js, ids \cup a, statuses)

\* The call that ended in s cancelled the cancellable jobs among ids and
\* downstream of them, and changed the status of no other antecedent of ids.
CancelsDownstreamOnly(s, ids) ==
  LET down == Downstream(jobs, ids, jobStatusCancellable)
  IN  /\ \A i \in down \cap DOMAIN jobs :
           jobs[i].status \in jobStatusCancellable => s.jobs[i].status = "cancelled"
      /\ \A i \in ids \cap DOMAIN jobs :
           \A a \in Range(jobs[i].depends) \cap DOMAIN jobs :
             a \notin down => s.jobs[a].status = jobs[a].status

\* C21: from every reachable state, a cancel without options, through the
\* jobCancel method, job.cancel() or cancelJobs(ids), cancels the target (if
\* cancellable) and transitively the cancellable jobs that depend on it, and
\* leaves the status of the target's antecedents unchanged.
C21_CancelWithoutOptions ==
  /\ \A ids \in SUBSET Ids :
       /\ CancelsDownstreamOnly(jobCancel_default(St, ids), ids)
       /\ CancelsDownstreamOnly(cancelJobs(St, ids), ids)
  /\ \A id \in Ids : CancelsDownstreamOnly(cancel(St, id), {id})

\* ----------------------------------------- restart without options (C22)
\* The call that ended in s restarted the restartable jobs among ids and
\* upstream of them (waiting, or ready by the jobReady that ends the method,
\* with one more retry), and changed the status of no other dependent of ids.
RestartsUpstreamOnly(s, ids) ==
  LET up == Upstream(jobs, ids, jobStatusRestartable)
  IN  /\ \A i \in up \cap DOMAIN jobs :
           jobs[i].status \in jobStatusRestartable =>
             /\ s.jobs[i].status \in {"waiting", "ready"}
             /\ s.jobs[i].retries = jobs[i].retries + 1
      /\ \A d \in DOMAIN jobs :
           (Range(jobs[d].depends) \cap ids # {} /\ d \notin up) =>
             s.jobs[d].status = jobs[d].status

\* C22: from every reachable state, a restart without options, through the
\* jobRestart method, job.restart() or restartJobs(ids), moves the target (if
\* cancelled or failed) and transitively its cancelled or failed antecedents
\* back to waiting with retries increased by 1, and leaves the status of the
\* jobs that depend on the target unchanged.
C22_RestartWithoutOptions ==
  /\ \A ids \in SUBSET Ids :
       /\ RestartsUpstreamOnly(jobRestart_default(St, ids), ids)
       /\ RestartsUpstreamOnly(restartJobs(St, ids), ids)
  /\ \A id \in Ids : RestartsUpstreamOnly(restart(St, id), {id})

\* ------------------------------------------------- log entries (C23)
\* The calls of jobReady with force: true.
ForcedReadyCalls ==
  { jobReady(St, ids, TRUE, time) : ids \in SUBSET Ids, time \in {now, foreverDate} }

\* C23 as stated: every update of any method call that changes the status of
\* a stored job pushes exactly one entry onto the job's log.
C23_OneLogEntryPerTransition ==
  \A s \in AllCalls : \A t \in s.tr : t[3] = 1

\* C23, amended: every update of any method call that changes the status of
\* a stored job pushes exactly one entry onto the job's log, except the
\* update of a forced promotion, which pushes two ("Dependencies force
\* resolved" and "Promoted to ready").
C23_LogEntriesPerTransition ==
  \A s \in AllCalls :
    \A t \in s.tr : t[3] = (IF s \in ForcedReadyCalls THEN 2 ELSE 1)

\* A job ran and completed; another waits for a job that is not completed and
\* a forced promotion makes it ready.
C23_Witness ==
  /\ \E i \in DOMAIN jobs : jobs[i].status = "completed"
  /\ \E s \in ForcedReadyCalls :
       \E i \in DOMAIN jobs :
         jobs[i].depends # <<>> /\ jobs[i].status = "waiting" /\ s.jobs[i].status = "ready"

\* ------------------------------------------ counters of a job (C24)
\* C24: in every reachable state retries, retried, repeats and repeated of
\* every stored job are at least 0.
C24_CountersNonNegative ==
  \A i \in DOMAIN jobs :
    /\ jobs[i].retries >= 0
    /\ jobs[i].retried >= 0
    /\ jobs[i].repeats >= 0
    /\ jobs[i].repeated >= 0

\* ------------------------------------- retries through the handle (C25)
\* C25: a job saved with job.retry({retries: k}) (the stored repeatRetries is
\* k + 1) and a retry deadline that is never reached: a non-fatal jobFail of
\* its j-th run pushes one failure record and leaves it waiting, unclaimed,
\* if j <= k, and failed if j = k + 1; there is no run after the (k+1)-th;
\* jobDone completes any of its runs, the (k+1)-th included.
C25_RetriesThroughHandle ==
  \A id \in DOMAIN jobs, runId \in 1..MaxChain :
    (jobs[id].status = "running" /\ jobs[id].runId = runId) =>
      LET k == jobs[id].repeatRetries - 1
          j == jobs[id].retried
          f == jobFail(St, id, runId, FALSE)
          d == jobDone(St, id, runId, 0)
      IN  /\ j <= k + 1
          /\ f.ret
          /\ f.failures = <<id>>
          /\ j <= k => /\ f.jobs[id].status = "waiting"
                       /\ f.jobs[id].runId = null
                       /\ f.jobs[id].retries = k + 1 - j
          /\ j = k + 1 => f.jobs[id].status = "failed"
          /\ d.ret
          /\ d.jobs[id].status = "completed"
          /\ d.failures = <<>>

\* A job saved with job.retry({retries: 2}) failed twice and is in its third
\* run.
C25_Witness ==
  \E i \in DOMAIN jobs :
    /\ jobs[i].repeatRetries = 3
    /\ jobs[i].retried = 3
    /\ jobs[i].retries = 0
    /\ jobs[i].status = "running"

\* ------------------------------- antecedents checked by the save (C26)
\* jobSave of the new document doc ended in s: with an antecedent that is not
\* stored, failed or cancelled the new job is cancelled, unclaimed, and no id
\* is returned; otherwise the completed antecedents were moved from depends
\* to resolved.
SaveChecksAntecedents(s, doc) ==
  LET deps == Range(doc.depends)
      bad == { a \in deps : a \notin DOMAIN jobs \/ jobs[a].status \in {"failed", "cancelled"} }
      done == { a \in deps \cap DOMAIN jobs : jobs[a].status = "completed" }
      new == s.jobs[nextId]
  IN  /\ bad # {} => /\ new.status = "cancelled"
                     /\ new.runId = null
                     /\ ~s.ret
                     /\ s.out = {}
      /\ bad = {} => /\ Range(new.depends) \cap done = {}
                     /\ done \subseteq Range(new.resolved)

\* C26: from every reachable state, jobSave of a new job whose depends names
\* an antecedent that is missing, failed or cancelled leaves the job
\* cancelled with null runId and returns no id; antecedents that are
\* completed are moved from depends to resolved instead.
C26_SaveChecksAntecedents ==
  \A doc \in SaveDocs : SaveChecksAntecedents(jobSave(St, null, doc, FALSE), doc)

\* ------------------------------- dependencies resolved by jobDone (C27)
\* Jobs saved without antecedents or depending on the first MaxDeps jobs
\* saved, one of them or all; MaxDeps + 2 jobs at most are saved.
ResolveDocs ==
  { depends(Job("send", 1), SetToSeq(D)) :
      D \in { E \in SUBSET (1..MaxDeps) : E \subseteq DOMAIN jobs } }

JobSaveResolve ==
  /\ \E s \in JobSaveCalls(ResolveDocs) :
       /\ s.nextId <= MaxDeps + 3
       /\ jobs' = s.jobs
       /\ nextId' = s.nextId
  /\ UNCHANGED <<nextRunId, now, stopped, calls, pool>>

\* job.done() by a worker, with or without delayDeps.
JobDoneResolve ==
  /\ \E s \in JobDoneCalls(DOMAIN jobs, 1..MaxChain, {0, 1}) :
       /\ jobs' = s.jobs
       /\ nextId' = s.nextId
  /\ UNCHANGED <<nextRunId, now, stopped, calls, pool>>

SweepResolve ==
  /\ jobs' = promote_jobs(St).jobs
  /\ UNCHANGED <<nextId, nextRunId, now, stopped, calls, pool>>

GetWorkResolve ==
  /\ nextRunId <= MaxChain
  /\ \E s \in GetWorkCalls :
       /\ jobs' = s.jobs
       /\ nextRunId' = IF s.out # {} THEN nextRunId + 1 ELSE nextRunId
  /\ UNCHANGED <<nextId, now, stopped, calls, pool>>

NextResolve == JobSaveResolve \/ SweepResolve \/ GetWorkResolve \/ JobDoneResolve \/ Tick

SpecResolve == InitStarted /\ [][NextResolve]_vars

\* C27: when jobDone completes the running job id, every stored job whose
\* depends contains id has id pulled from depends and appended to resolved;
\* such a job that was waiting is ready when jobDone returns if its depends
\* is now empty and its after (raised by delayDeps, if given) is <= now, and
\* is still waiting if other antecedents remain in its depends.
C27_DoneResolvesDependents ==
  \A id \in DOMAIN jobs, runId \in 1..MaxChain, delayDeps \in {0, 1} :
    (jobs[id].status = "running" /\ jobs[id].runId = runId) =>
      LET s == jobDone(St, id, runId, delayDeps)
      IN  /\ s.ret
          /\ s.jobs[id].status = "completed"
          /\ \A d \in DOMAIN jobs :
               id \in Range(jobs[d].depends) =>
                 LET aft == IF delayDeps # 0 THEN Max(jobs[d].after, now + delayDeps)
                            ELSE jobs[d].after
                     rest == SelectSeq(jobs[d].depends, LAMBDA x : x # id)
                 IN  /\ s.jobs[d].depends = rest
                     /\ s.jobs[d].resolved = Append(jobs[d].resolved, id)
                     /\ (jobs[d].status = "waiting" /\ rest = <<>> /\ aft <= now)
                          => s.jobs[d].status = "ready"
                     /\ (jobs[d].status = "waiting" /\ rest # <<>>)
                          => s.jobs[d].status = "waiting"
          /\ \A d \in DOMAIN jobs :
               (d # id /\ id \notin Range(jobs[d].depends)) => s.jobs[d] = jobs[d]

\* Job 3 depended on jobs 1 and 2: job 1 completed and job 3 still waits for
\* job 2, which is running; a job that depended on job 1 alone is ready.
C27_Witness ==
  /\ DOMAIN jobs = 1..4
  /\ jobs[1].status = "completed"
  /\ jobs[2].status = "running"
  /\ \E d \in DOMAIN jobs :
       /\ jobs[d].depends = <<2>> /\ jobs[d].resolved = <<1>> /\ jobs[d].status = "waiting"
  /\ \E d \in DOMAIN jobs :
       /\ jobs[d].depends = <<>> /\ jobs[d].resolved = <<1>> /\ jobs[d].status = "ready"

\* ------------------------------------------- the retry backoff (C28)
\* Jobs saved with job.retry({retries, wait, backoff, until}): a budget of one
\* or three runs, with or without a wait, a deadline that is reached or not.
BackoffDocs ==
  { retry(Job("send", 1), k, wait, backoff, until) :
      k \in {0, 2}, wait \in {0, 1}, backoff \in jobRetryBackoffMethods,
      until \in {1, foreverDate} }

JobSaveBackoff == (\E s \in JobSaveCalls(BackoffDocs) : Call(s)) /\ UNCHANGED nextRunId

NextBackoff == JobSaveBackoff \/ Sweep \/ GetWorkChain \/ JobFailChain \/ Tick

SpecBackoff == InitStarted /\ [][NextBackoff]_vars

\* C28: jobFail of a running job by its current run returns true and pushes
\* exactly one failure record; not fatal, it stores after = now + retryWait
\* (constant) or now + retryWait * 2^(retried - 1) (exponential) and leaves
\* the job waiting iff retries > 0 and retryUntil >= that time, failed
\* otherwise; fatal, it leaves the job failed.
C28_FailBackoff ==
  \A id \in DOMAIN jobs, runId \in 1..MaxChain, fatal \in BOOLEAN :
    (jobs[id].status = "running" /\ jobs[id].runId = runId) =>
      LET d == jobs[id]
          s == jobFail(St, id, runId, fatal)
          time == IF d.retryBackoff = "exponential"
                  THEN now + d.retryWait * 2^(d.retried - 1)
                  ELSE now + d.retryWait
      IN  /\ d.retried >= 1
          /\ s.ret
          /\ s.failures = <<id>>
          /\ ~fatal => s.jobs[id].after = time
          /\ s.jobs[id].status =
               (IF ~fatal /\ d.retries > 0 /\ d.retryUntil >= time
                THEN "waiting" ELSE "failed")

\* A job with exponential backoff is in its second run with retries left;
\* its next attempt would come after the retry deadline.
C28_Witness ==
  \E i \in DOMAIN jobs :
    /\ jobs[i].status = "running"
    /\ jobs[i].retryBackoff = "exponential"
    /\ jobs[i].retryWait = 1
    /\ jobs[i].retried = 2
    /\ jobs[i].retries > 0
    /\ jobs[i].retryUntil < now + 2

\* --------------------------------------------- what getWork claims (C29)
\* The job types of the producers.
ClaimTypes == {"send", "other"}

\* Jobs of either type, of priority 0 or 1, with a retry deadline or none,
\* due now or later.
ClaimDocs ==
  { after(priority(retry(Job(type, 1), 1, 0, "constant", until), level), time) :
      type \in ClaimTypes, level \in {0, 1}, until \in {1, foreverDate}, time \in {0, 1} }

\* getWork(type, {maxJobs}) for one type or several.
ClaimCalls ==
  UNION { { getWork(St, types, maxJobs, 0, nextRunId, ids) :
              ids \in getWork_find(jobs, types, maxJobs) } :
          types \in SUBSET ClaimTypes \ {{}}, maxJobs \in 1..MaxChain }

JobSaveClaim ==
  (\E s \in JobSaveCalls(ClaimDocs) : CallWithin(s, MaxChain)) /\ UNCHANGED nextRunId

GetWorkClaim ==
  /\ nextRunId <= MaxRuns
  /\ \E s \in ClaimCalls :
       /\ CallWithin(s, MaxChain)
       /\ nextRunId' = IF s.out # {} THEN nextRunId + 1 ELSE nextRunId

NextClaim ==
  \/ JobSaveClaim
  \/ SweepChain
  \/ GetWorkClaim
  \/ StartJobServer
  \/ ShutdownJobServer
  \/ Tick

SpecClaim == Init /\ [][NextClaim]_vars

\* Job a comes before job b in the order priority, retryUntil, after.
Precedes(a, b) ==
  \/ a.priority < b.priority
  \/ a.priority = b.priority /\ a.retryUntil < b.retryUntil
  \/ a.priority = b.priority /\ a.retryUntil = b.retryUntil /\ a.after < b.after

\* The call getWork(types, {maxJobs}) that ended in s claimed min(maxJobs, r)
\* of the r ready unclaimed jobs of those types, none that sorts after a
\* ready job of those types it left, took one retry from each and counted
\* the run, and changed no other job.
ClaimsFirstReady(s, types, maxJobs) ==
  LET r == { i \in DOMAIN jobs : /\ jobs[i].type \in types
                                 /\ jobs[i].status = "ready"
                                 /\ jobs[i].runId = null }
      claimed == { i \in DOMAIN jobs : s.jobs[i] # jobs[i] }
  IN  /\ s.out = claimed
      /\ claimed \subseteq r
      /\ Cardinality(claimed) = Min(maxJobs, Cardinality(r))
      /\ \A a \in claimed : \A b \in r \ claimed : ~Precedes(jobs[b], jobs[a])
      /\ \A a \in claimed :
           /\ s.jobs[a].status = "running"
           /\ s.jobs[a].runId = nextRunId
           /\ s.jobs[a].retries = jobs[a].retries - 1
           /\ s.jobs[a].retried = jobs[a].retried + 1

ResaveDocs(id) ==
  { [jobs[id] EXCEPT !.status = st, !.depends = d] :
      st \in jobStatuses, d \in DependsChoices }

\* C30: from every reachable state, jobSave of a document that carries the
\* id of a stored job throws before any store access if the document's
\* status is neither waiting nor paused; otherwise it returns the id only if
\* the stored job is paused with null runId, and then the stored job is
\* waiting, or ready if nothing is left in its depends and its after is due;
\* if the stored job is in any other status it returns no id and the store
\* is unchanged.
C30_SaveStoredJob ==
  \A id \in DOMAIN jobs :
    \A doc \in ResaveDocs(id) :
      LET s == jobSave(St, id, doc, FALSE)
          paused == jobs[id].status = "paused" /\ jobs[id].runId = null
      IN  IF doc.status \notin {"waiting", "paused"}
          THEN s.err /\ ~s.ret /\ s.out = {} /\ s.jobs = jobs
          ELSE /\ ~s.err
               /\ s.ret => /\ paused
                           /\ s.out = {id}
                           /\ s.jobs[id].status =
                                (IF s.jobs[id].depends = <<>> /\ doc.after <= now
                                 THEN "ready" ELSE "waiting")
               /\ ~paused => ~s.ret /\ s.out = {} /\ s.jobs = jobs
               /\ (paused /\ doc.depends = <<>>) => s.ret

\* Job 1 waits for job 2, which was saved after it and is running: job 1 was
\* paused and saved again with job 2 as its antecedent.
C30_Witness ==
  /\ DOMAIN jobs = {1, 2}
  /\ jobs[1].depends = <<2>>
  /\ jobs[1].status = "waiting"
  /\ jobs[2].status = "running"

\* ---------------------------------------- save with cancelRepeats (C31)
\* Jobs of two types saved with job.repeat({repeats}) for a finite or an
\* infinite repeats, with or without an antecedent.
CancelRepeatsDocs ==
  { depends(repeat(Job(type, 1), repeats, 0, foreverDate), dp) :
      type \in {"send", "other"}, repeats \in {0, forever}, dp \in DependsChoices }

\* job.save({cancelRepeats}) of a new job.
JobSaveCancelRepeats ==
  /\ \E doc \in CancelRepeatsDocs, cancelRepeats \in BOOLEAN :
       CallWithin(jobSave(St, null, doc, cancelRepeats), MaxChain)
  /\ UNCHANGED nextRunId

NextCancelRepeats == JobSaveCancelRepeats \/ SweepChain \/ GetWorkChain \/ Tick

SpecCancelRepeats == InitStarted /\ [][NextCancelRepeats]_vars

\* C31 as stated: a save of a new job changes the status of a stored job only
\* if cancelRepeats is set and the new job repeats forever, and then only of
\* cancellable jobs of the same type that repeat forever themselves and of
\* jobs depending on them.
C31_CancelsRepeatingOnly ==
  \A doc \in CancelRepeatsDocs, cancelRepeats \in BOOLEAN :
    LET s == jobSave(St, null, doc, cancelRepeats)
        rep == { i \in DOMAIN jobs : /\ jobs[i].type = doc.type
                                     /\ jobs[i].repeats = forever
                                     /\ jobs[i].status \in jobStatusCancellable }
    IN  \A i \in DOMAIN jobs :
          s.jobs[i].status # jobs[i].status =>
            /\ cancelRepeats /\ doc.repeats = forever
            /\ i \in Downstream(jobs, rep, jobStatusCancellable)

\* C31, amended: a save of a new job changes the status of a stored job only
\* if cancelRepeats is set and the new job repeats forever; it then cancels
\* every cancellable job of the new job's type, whatever its repeats, and the
\* cancellable jobs depending on them, and changes no other job.
C31_CancelsSameType ==
  \A doc \in CancelRepeatsDocs, cancelRepeats \in BOOLEAN :
    LET s == jobSave(St, null, doc, cancelRepeats)
        same == { i \in DOMAIN jobs : /\ jobs[i].type = doc.type
                                      /\ jobs[i].status \in jobStatusCancellable }
        down == Downstream(jobs, same, jobStatusCancellable)
    IN  \A i \in DOMAIN jobs :
          IF cancelRepeats /\ doc.repeats = forever /\ i \in down
          THEN s.jobs[i].status = "cancelled"
          ELSE s.jobs[i] = jobs[i]

\* Job 1, of type send with a finite repeats and no antecedent, is cancelled
\* and never ran; a job of type other is not cancelled; job 3 is of type send
\* and repeats forever: its save with cancelRepeats cancelled job 1.
C31_Witness ==
  /\ DOMAIN jobs = 1..3
  /\ jobs[1].type = "send" /\ jobs[1].repeats = 0 /\ jobs[1].depends = <<>>
  /\ jobs[1].status = "cancelled"
  /\ jobs[2].type = "other" /\ jobs[2].depends = <<>> /\ jobs[2].status = "ready"
  /\ jobs[3].type = "send" /\ jobs[3].repeats = forever /\ jobs[3].status = "ready"

\* ------------------------------------------------ rerun of a job (C32)
\* C32: from every reachable state, job.rerun() of a job that is not stored
\* or not completed returns false and changes nothing; of a completed job it
\* inserts exactly one job, ready if it is due (wait = 0) and waiting
\* otherwise, unclaimed, with retried = 0, repeated one more than the
\* original's and no result, pushes no failure record, and leaves every
\* stored document unchanged: the original stays completed with its result.
C32_Rerun ==
  \A id \in Ids \cup {MissingId}, repeats \in {0, 1}, wait \in {0, 1},
     until \in {undefined, foreverDate} :
    LET s == jobRerun(St, id, repeats, wait, until)
    IN  IF id \in DOMAIN jobs /\ jobs[id].status = "completed"
        THEN /\ s.ret /\ s.out = {nextId}
             /\ DOMAIN s.jobs = DOMAIN jobs \cup {nextId}
             /\ \A i \in DOMAIN jobs : s.jobs[i] = jobs[i]
             /\ jobs[id].result
             /\ s.jobs[nextId].status = (IF wait = 0 THEN "ready" ELSE "waiting")
             /\ s.jobs[nextId].runId = null
             /\ s.jobs[nextId].retried = 0
             /\ s.jobs[nextId].repeated = jobs[id].repeated + 1
             /\ ~s.jobs[nextId].result
             /\ s.failures = <<>>
        ELSE ~s.ret /\ s.out = {} /\ s.jobs = jobs /\ s.nextId = nextId

\* Job 1 completed in its second run; job 2 is its rerun, made ready.
C32_Witness ==
  /\ DOMAIN jobs = {1, 2}
  /\ jobs[1].status = "completed" /\ jobs[1].retried = 2 /\ jobs[1].result
  /\ jobs[2].repeated = 1 /\ jobs[2].retried = 0 /\ ~jobs[2].result
  /\ jobs[2].status = "ready"

\* ------------------------------------------------ expired runs (C33)
\* Jobs saved with job.retry({retries: k, until}), alone or depending on a
\* stored job.
TimeoutDocs ==
  { depends(retry(Job("send", 1), k, 0, "constant", until), dp) :
      k \in {0, 1}, until \in {1, foreverDate},
      dp \in {<<>>} \cup { <<j>> : j \in DOMAIN jobs } }

JobSaveTimeout == (\E s \in JobSaveCalls(TimeoutDocs) : Call(s)) /\ UNCHANGED nextRunId

\* getWork with or without a workTimeout of one tick; a run that expires is
\* claimed while the clock can still pass its expiry.
GetWorkTimeout ==
  /\ nextRunId <= MaxChain
  /\ \E maxJobs \in 1..MaxJobs, workTimeout \in {0, 1} :
       /\ now + workTimeout < MaxExpiry
       /\ \E ids \in getWork_find(jobs, Types, maxJobs) :
            LET s == getWork(St, Types, maxJobs, workTimeout, nextRunId, ids)
            IN  /\ Call(s)
                /\ nextRunId' = IF s.out # {} THEN nextRunId + 1 ELSE nextRunId

TickExpiry ==
  /\ now < MaxExpiry
  /\ now' = now + 1
  /\ UNCHANGED <<jobs, nextId, nextRunId, stopped, calls, pool>>

NextTimeout == JobSaveTimeout \/ GetWorkTimeout \/ Sweep \/ TickExpiry

\* A sweep would change the store: the enabling condition of <<Sweep>>_vars.
SweepChanges ==
  LET s == promote_jobs(St)
  IN  Within(s, MaxJobs) /\ (s.jobs # jobs \/ s.nextId # nextId)

\* The job server is started and stays so; no worker reports anything; the
\* clock keeps advancing and the interval timer keeps firing the sweeper:
\* weak fairness of Sweep, written out with its enabling condition.
SpecTimeout ==
  /\ InitStarted /\ [][NextTimeout]_vars
  /\ WF_vars(TickExpiry)
  /\ ([]<>(~SweepChanges) \/ []<><<Sweep>>_vars)

\* The running jobs whose expiresAfter has passed.
Expired == { i \in DOMAIN jobs : /\ jobs[i].status = "running"
                                 /\ jobs[i].expiresAfter # undefined
                                 /\ jobs[i].expiresAfter < now }

\* A sweep takes every expired run out of running, as a non-fatal jobFail of
\* that run does: unclaimed, with one failure record, retried if retries
\* remain and retryUntil allows (waiting, then ready by the sweep's own
\* promotion) and failed otherwise, with its dependents cancelled; the other
\* running jobs keep running.
SweepFailsExpired ==
  LET s == promote_jobs(St)
  IN  /\ Range(s.failures) = Expired
      /\ \A i \in DOMAIN jobs :
           IF i \in Expired
           THEN /\ s.jobs[i].runId = null
                /\ s.jobs[i].status =
                     (IF jobs[i].retries > 0 /\ jobs[i].retryUntil >= now + jobs[i].retryWait
                      THEN "ready" ELSE "failed")
                /\ s.jobs[i].status = jobFail(St, i, jobs[i].runId, FALSE).jobs[i].status
                     \/ s.jobs[i].status = "ready"
                /\ s.jobs[i].status = "failed" =>
                     \A d \in DOMAIN jobs :
                       (i \in Range(jobs[d].depends) /\ jobs[d].status \in jobStatusCancellable)
                         => s.jobs[d].status = "cancelled"
           ELSE jobs[i].status = "running" => s.jobs[i] = jobs[i]

\* C33: on a started job server, with no call from the worker, a running job
\* claimed with a workTimeout eventually leaves status running; the sweep that
\* finds its expiresAfter passed fails it as a non-fatal jobFail of its run
\* does.
C33_ExpiredRunsAreFailed ==
  /\ [](SweepFailsExpired)
  /\ \A i \in Ids :
       (i \in DOMAIN jobs /\ jobs[i].status = "running" /\ jobs[i].expiresAfter # undefined)
         ~> (i \in DOMAIN jobs /\ jobs[i].status # "running")

\* Job 1 ran once with a workTimeout and is failed; job 2, which depended on
\* it, is cancelled.
C33_Witness ==
  /\ DOMAIN jobs = {1, 2}
  /\ jobs[1].status = "failed" /\ jobs[1].retried = 1 /\ jobs[1].workTimeout = 1
  /\ jobs[2].depends = <<1>> /\ jobs[2].status = "cancelled"

\* ------------------------------------- the loop of getWork (C34)
\* The next step of the call of caller c.
GW_Run(c) == GW_Find(c) \/ GW_Update(c) \/ GW_Reread(c)

\* Concurrent getWork calls while the clock advances and the sweeper promotes
\* the jobs whose time has come; every call that began keeps running.
NextGetWorkLive == NextGetWork \/ Tick \/ Sweep

SpecGetWorkLive ==
  InitGetWork /\ [][NextGetWorkLive]_vars /\ \A c \in Callers : WF_vars(GW_Run(c))

\* A step that ends the call of c: it holds maxJobs documents, or its find
\* came back empty.
EndsFullOrEmpty(c) ==
  (calls[c].pc # "done" /\ calls'[c].pc = "done") =>
    \/ Len(calls'[c].docs) = calls[c].maxJobs
    \/ /\ calls[c].pc = "find"
       /\ {} \in getWork_find(jobs, Types, calls[c].maxJobs - Len(calls[c].docs))

\* An update of c after other claimants took every job it found: it claims
\* nothing and the loop goes on with a fresh find.
LostRoundFindsAgain(c) ==
  ( /\ calls[c].pc = "update"
    /\ calls'[c] # calls[c]
    /\ \A i \in calls[c].found : ~(jobs[i].status = "ready" /\ jobs[i].runId = null) ) =>
    /\ jobs' = jobs
    /\ calls'[c].pc = "find"
    /\ calls'[c].docs = calls[c].docs

\* C34: a getWork call never holds more than maxJobs documents; it ends only
\* with maxJobs documents or on a find that returned nothing; a round whose
\* found jobs were all taken by other claimants claims nothing and is followed
\* by a fresh find; and every call that began ends (the jobs that become ready
\* during the call are finitely many).
C34_GetWorkTerminates ==
  /\ [](\A c \in Callers : Len(calls[c].docs) <= calls[c].maxJobs)
  /\ [][\A c \in Callers : EndsFullOrEmpty(c) /\ LostRoundFindsAgain(c)]_vars
  /\ \A c \in Callers :
       (calls[c].pc \in {"find", "update", "reread"}) ~> (calls[c].pc = "done")

\* A call lost a round (every job it found was claimed by another call
\* before its update) and is about to find again, a job being ready that the
\* sweeper promoted since.
C34_Witness ==
  \E c \in Callers :
    /\ calls[c].pc = "find"
    /\ calls[c].found # {}
    /\ calls[c].docs = <<>>
    /\ \A i \in calls[c].found :
         jobs[i].status = "running" /\ jobs[i].runId # calls[c].runId
    /\ \E j \in DOMAIN jobs :
         jobs[j].status = "ready" /\ jobs[j].runId = null /\ jobs[j].after = 1

\* ------------------------------- the recursion of cancel and restart (C35)
RECURSIVE CancelEnds(_, _, _, _, _)
\* The level of jobCancel invoked on ids, and the levels below it, of which
\* there are `fuel` at most: the level's update leaves none of ids
\* cancellable, and the next level is invoked on cancellable jobs only.
CancelEnds(s, ids, antecedents, dependents, fuel) ==
  LET s1 == jobCancel(s, ids, FALSE, FALSE)
      cancelIds == idsOfDeps(s1.jobs, ids, antecedents, dependents, jobStatusCancellable)
  IN  /\ \A i \in ids \cap DOMAIN s1.jobs : s1.jobs[i].status \notin jobStatusCancellable
      /\ cancelIds # {} =>
           /\ fuel > 0
           /\ \A i \in cancelIds : s1.jobs[i].status \in jobStatusCancellable
           /\ CancelEnds(s1, cancelIds, antecedents, dependents, fuel - 1)

RECURSIVE RestartEnds(_, _, _, _, _)
\* The same for jobRestart (the jobReady that ends a level changes neither
\* depends nor a restartable status, so the levels below see what they would
\* see before it).
RestartEnds(s, ids, antecedents, dependents, fuel) ==
  LET s1 == jobRestart(s, ids, 1, undefined, FALSE, FALSE)
      restartIds == idsOfDeps(s1.jobs, ids, antecedents, dependents, jobStatusRestartable)
  IN  /\ \A i \in ids \cap DOMAIN s1.jobs : s1.jobs[i].status \notin jobStatusRestartable
      /\ restartIds # {} =>
           /\ fuel > 0
           /\ \A i \in restartIds : s1.jobs[i].status \in jobStatusRestartable
           /\ RestartEnds(s1, restartIds, antecedents, dependents, fuel - 1)

\* The number of stored jobs in one of `statuses`.
NumIn(statuses) == Cardinality({ i \in DOMAIN jobs : jobs[i].status \in statuses })

\* C35: from every reachable state (the depends of the stored jobs may form a
\* cycle), a jobCancel or jobRestart call on any ids with any antecedents and
\* dependents flags, running alone, ends: below the first level there are no
\* more levels than jobs in a cancellable (restartable) status, each invoked
\* only on jobs in such a status, all of which it takes out of it; and the
\* call returns.
C35_CancelRestartTerminate ==
  \A ids \in SUBSET Ids, antecedents \in BOOLEAN, dependents \in BOOLEAN :
    /\ CancelEnds(St, ids, antecedents, dependents, NumIn(jobStatusCancellable))
    /\ RestartEnds(St, ids, antecedents, dependents, NumIn(jobStatusRestartable))
    /\ ~jobCancel(St, ids, antecedents, dependents).err
    /\ ~jobRestart(St, ids, 1, undefined, antecedents, dependents).err

\* Two jobs that depend on each other, both cancelled.
C35_Witness ==
  /\ DOMAIN jobs = {1, 2}
  /\ jobs[1].depends = <<2>> /\ jobs[2].depends = <<1>>
  /\ jobs[1].status = "cancelled" /\ jobs[2].status = "cancelled"

\* ------------------------------ the work timeout of a stored job (C36)
\* The document holds neither workTimeout nor expiresAfter.
NoWorkTimeout(d) == d.workTimeout = 0 /\ d.expiresAfter = undefined

\* C36: in every reachable state a stored job that is not running holds
\* neither workTimeout nor expiresAfter, and jobDone, jobFail and jobCancel on
\* a running job leave it without them.
C36_WorkTimeoutOnlyWhileRunning ==
  /\ \A i \in DOMAIN jobs : jobs[i].status # "running" => NoWorkTimeout(jobs[i])
  /\ \A i \in DOMAIN jobs :
       jobs[i].status = "running" =>
         /\ NoWorkTimeout(jobDone(St, i, jobs[i].runId, 0).jobs[i])
         /\ \A fatal \in BOOLEAN : NoWorkTimeout(jobFail(St, i, jobs[i].runId, fatal).jobs[i])
         /\ NoWorkTimeout(jobCancel_default(St, {i}).jobs[i])

\* ------------------------------- the completion signal of a task (C37)
\* What an observer of the completion signals has seen: the extra signals
\* sent, those reported to errorCallback, those that raised an error, and
\* how often the completion handling ran for a task that had signalled.
SignalFields(callbackStrict) ==
  [callbackStrict |-> callbackStrict, extraSignals |-> 0, signalReports |-> 0,
   signalRaised |-> 0, rehandled |-> 0]

\* The function _only_once(next) made for task t is invoked; called: it was
\* invoked before.
only_once(q, t, called) ==
  LET q1 == IF called THEN [q EXCEPT !.signalReports = @ + 1] ELSE q
  IN  IF called /\ q.callbackStrict
      THEN [q1 EXCEPT !.signalRaised = @ + 1]
      ELSE pool_next(IF called THEN [q1 EXCEPT !.rehandled = @ + 1] ELSE q1, t)

\* A pool, strict about its callbacks or not, on a started job server with
\* ready jobs.
InitPoolSignal ==
  /\ jobs = [i \in 1..MaxPoolJobs |-> ReadyJob(0)]
  /\ nextId = MaxPoolJobs + 1
  /\ nextRunId = 1
  /\ now = 0
  /\ stopped = FALSE
  /\ calls = <<>>
  /\ pool \in { JobQueue(c, p, 0, FALSE) @@ SignalFields(strict) :
                  c \in 1..MaxConcurrency, p \in 1..MaxPayload, strict \in BOOLEAN }

\* The work function of a task that has signalled completion signals again.
TaskSignalsAgain ==
  /\ pool.extraSignals < MaxSignals
  /\ \E t \in (0..(pool.taskNumber - 1)) \ DOMAIN pool.workers :
       PoolStep(only_once([pool EXCEPT !.extraSignals = @ + 1], t, TRUE))

NextPoolSignal ==
  \/ RunImmediate({FALSE})
  \/ GetWorkReturns
  \/ TaskCompletes
  \/ TaskSignalsAgain
  \/ FailReturns
  \/ PoolShutdown

SpecPoolSignal == InitPoolSignal /\ [][NextPoolSignal]_vars

\* C37: the completion handling of a task never runs for a task that has
\* signalled already; every extra signal is reported to errorCallback, and
\* raises an error if callbackStrict is set.
C37_CompletionHandledOnce ==
  /\ pool.rehandled = 0
  /\ pool.signalReports = pool.extraSignals
  /\ pool.callbackStrict => pool.signalRaised = pool.extraSignals

\* ------------------------------ the sweeper among other calls (C38)
\* The find of _promote_jobs: the running jobs whose expiresAfter has passed,
\* as the documents read (id and run id).
promote_jobs_find(js) ==
  LET zombieJobs == { i \in DOMAIN js : /\ js[i].status = "running"
                                        /\ js[i].expiresAfter # undefined
                                        /\ js[i].expiresAfter < now }
  IN  [k \in 1..Cardinality(zombieJobs) |->
         <<SetToSeq(zombieJobs)[k], js[SetToSeq(zombieJobs)[k]].runId>>]

\* The sweeper is idle, no scan read.
InitSweeper ==
  /\ jobs = <<>>
  /\ nextId = 1
  /\ nextRunId = 1
  /\ now = 0
  /\ stopped = FALSE
  /\ calls = [pc |-> "idle", zombieJobs |-> <<>>]
  /\ pool = <<>>

\* A step of the sweeper that leaves the store in state s.
SweeperStep(s, pc, zs) ==
  /\ Within(s, MaxJobs)
  /\ jobs' = s.jobs
  /\ nextId' = s.nextId
  /\ calls' = [pc |-> pc, zombieJobs |-> zs]
  /\ UNCHANGED <<nextRunId, now, stopped, pool>>

\* The interval timer fires the sweeper, which reads the expired runs.
SweepFind ==
  /\ calls.pc = "idle"
  /\ ~stopped
  /\ SweeperStep(St, "fail", promote_jobs_find(jobs))

\* The sweeper fails the next run it read, with the run id it read.
SweepFail ==
  /\ calls.pc = "fail"
  /\ Len(calls.zombieJobs) > 0
  /\ SweeperStep(jobFail(St, Head(calls.zombieJobs)[1], Head(calls.zombieJobs)[2], FALSE),
                 "fail", Tail(calls.zombieJobs))

\* The sweeper has failed every run it read and promotes the waiting jobs.
SweepReady ==
  /\ calls.pc = "fail"
  /\ Len(calls.zombieJobs) = 0
  /\ SweeperStep(jobReady(St, {}, FALSE, now), "idle", <<>>)

\* The worker of a running job reports progress or logs a message.
WorkerReports ==
  /\ \E i \in DOMAIN jobs :
       /\ jobs[i].status = "running"
       /\ \E s \in {jobProgress(St, i, jobs[i].runId, 0, 1), jobLog(St, i, jobs[i].runId)} :
            Call(s)
  /\ UNCHANGED nextRunId

NextSweeper ==
  \/ JobSaveTimeout
  \/ GetWorkTimeout
  \/ TickExpiry
  \/ SweepFind
  \/ SweepFail
  \/ SweepReady
  \/ WorkerReports

SpecSweeper == InitSweeper /\ [][NextSweeper]_vars

\* The next run the sweeper is about to fail is still the run it read, and its
\* expiry is not in the past.
RefreshedSinceFind ==
  /\ calls.pc = "fail"
  /\ Len(calls.zombieJobs) > 0
  /\ Head(calls.zombieJobs)[1] \in DOMAIN jobs
  /\ jobs[Head(calls.zombieJobs)[1]].status = "running"
  /\ jobs[Head(calls.zombieJobs)[1]].runId = Head(calls.zombieJobs)[2]
  /\ jobs[Head(calls.zombieJobs)[1]].expiresAfter >= now

\* C38: the sweeper's jobFail does not fail a run whose expiresAfter is not
\* in the past when it is applied: a run refreshed by jobProgress or jobLog
\* after the sweeper read it stays running.
C38_SweeperSparesRefreshedRun ==
  RefreshedSinceFind =>
    jobFail(St, Head(calls.zombieJobs)[1], Head(calls.zombieJobs)[2], FALSE)
      .jobs[Head(calls.zombieJobs)[1]].status = "running"

\* ------------------------------------- a stopped job server (C39)
\* Jobs without dependencies saved to run now or one tick later.
StoppedDocs == { after(Job("send", 1), a) : a \in {0, 1} }

JobSaveStopped == (\E s \in JobSaveCalls(StoppedDocs) : Call(s)) /\ UNCHANGED nextRunId

NextStopped ==
  \/ JobSaveStopped
  \/ GetWorkTimeout
  \/ Sweep
  \/ TickExpiry
  \/ StartJobServer
  \/ ShutdownJobServer

\* A new job collection, started and shut down any number of times.
SpecStopped == Init /\ [][NextStopped]_vars

\* The jobs a sweep on a started server would promote.
Promotable == jobReady_query(jobs, {}, FALSE, now)

\* No getWork call hands out or changes a job, and a sweep changes nothing.
StoppedServerIsInert ==
  /\ \A maxJobs \in 1..MaxJobs, workTimeout \in {0, 1} :
       \A ids \in getWork_find(jobs, Types, maxJobs) :
         LET s == getWork(St, Types, maxJobs, workTimeout, nextRunId, ids)
         IN  s.out = {} /\ ~s.ret /\ s.jobs = jobs /\ s.tr = {}
  /\ LET s == promote_jobs(St)
     IN  s.jobs = jobs /\ s.tr = {} /\ s.failures = <<>>

\* jobSave still makes a new job ready if it is due and has no dependencies.
StoppedServerSaves ==
  \A doc \in StoppedDocs :
    LET s == jobSave(St, null, doc, FALSE)
    IN  /\ s.ret
        /\ s.jobs[nextId].status = (IF doc.after <= now THEN "ready" ELSE "waiting")

\* No job, stored or new, goes from another status to running.
NoneClaimed ==
  \A i \in DOMAIN jobs' :
    jobs'[i].status = "running" => (i \in DOMAIN jobs /\ jobs[i] = jobs'[i])

jobFail_err(s, id, runId, err, fatal) ==
  IF err # "object" THEN Throw(s) ELSE jobFail(s, id, runId, fatal)

RECURSIVE FailRunning(_, _)
\* The loop of the shutdown timer's callback over the running jobs it read:
\* a jobFail that throws ends the callback.
FailRunning(s, ds) ==
  IF Len(ds) = 0 \/ s.err THEN s
  ELSE FailRunning(jobFail_err(s, Head(ds)[1], Head(ds)[2], "string", FALSE), Tail(ds))

\* The callback of the timer set by shutdownJobServer.
shutdown_timeout(s) ==
  LET runningJobs == { i \in DOMAIN s.jobs : s.jobs[i].status = "running" }
  IN  FailRunning(s, [k \in 1..Cardinality(runningJobs) |->
                        <<SetToSeq(runningJobs)[k], s.jobs[SetToSeq(runningJobs)[k]].runId>>])

\* A new job collection: stopped, no shutdown timer pending.
InitShutdown ==
  /\ jobs = <<>>
  /\ nextId = 1
  /\ nextRunId = 1
  /\ now = 0
  /\ stopped = TRUE
  /\ calls = [timeout |-> null]
  /\ pool = <<>>

\* _DDPMethod_startJobServer(): a pending shutdown timer is cleared.
StartJobServerClears ==
  /\ stopped' = FALSE
  /\ calls' = [timeout |-> null]
  /\ UNCHANGED <<jobs, nextId, nextRunId, now, pool>>

\* _DDPMethod_shutdownJobServer({timeout}): `stopped` holds the handle of a
\* timer due after `timeout`, which replaces a pending one.
ShutdownJobServerTimeout ==
  /\ \E timeout \in 1..MaxTimeout :
       /\ now + timeout <= MaxExpiry
       /\ calls' = [timeout |-> now + timeout]
  /\ stopped' = TRUE
  /\ UNCHANGED <<jobs, nextId, nextRunId, now, pool>>

\* The shutdown timer is pending and due.
TimeoutElapsed == calls.timeout # null /\ calls.timeout <= now

\* The shutdown timer fires and its callback runs.
ShutdownElapses ==
  /\ TimeoutElapsed
  /\ LET s == shutdown_timeout(St)
     IN  /\ jobs' = s.jobs
         /\ nextId' = s.nextId
  /\ calls' = [timeout |-> null]
  /\ UNCHANGED <<nextRunId, now, stopped, pool>>

\* The worker of a running job ends its run, done or failed.
WorkerEnds ==
  /\ \E i \in DOMAIN jobs :
       /\ jobs[i].status = "running"
       /\ \E s \in {jobDone(St, i, jobs[i].runId, 0),
                    jobFail_err(St, i, jobs[i].runId, "object", FALSE)} : Call(s)
  /\ UNCHANGED <<nextRunId>>

NextShutdown ==
  \/ JobSaveStopped
  \/ GetWorkTimeout
  \/ WorkerEnds
  \/ TickExpiry
  \/ StartJobServerClears
  \/ ShutdownJobServerTimeout
  \/ ShutdownElapses

SpecShutdown == InitShutdown /\ [][NextShutdown]_vars

\* A timer is pending only while the server is stopped: startJobServer
\* cancels it.
StartCancelsShutdown == calls.timeout # null => stopped

\* C40: when the shutdown timeout elapses, the timer's callback takes every
\* running job out of status running, as jobFail with its run id does; after
\* startJobServer no shutdown timer is pending.
C40_ShutdownTimeoutFailsRunning ==
  /\ TimeoutElapsed =>
       \A i \in DOMAIN jobs :
         jobs[i].status = "running" =>
           /\ shutdown_timeout(St).jobs[i].status # "running"
           /\ shutdown_timeout(St).jobs[i] =
                jobFail(St, i, jobs[i].runId, FALSE).jobs[i]
  /\ StartCancelsShutdown

\* -------------------------------------------------- removing jobs (C11)
\* C11: from every reachable state, jobRemove deletes exactly the named jobs
\* whose status is cancelled, completed or failed and returns true iff it
\* deleted one; on a waiting, paused, ready or running job it returns false
\* and changes nothing; a second jobRemove of a removed id returns false and
\* changes nothing.
C11_RemoveOnlyTerminal ==
  /\ \A ids \in SUBSET Ids :
       LET s == jobRemove(St, ids)
           gone == { i \in ids \cap DOMAIN jobs :
                       jobs[i].status \in {"cancelled", "completed", "failed"} }
       IN  /\ DOMAIN s.jobs = DOMAIN jobs \ gone
           /\ \A i \in DOMAIN s.jobs : s.jobs[i] = jobs[i]
           /\ s.ret = (gone # {})
           /\ ~s.err
  /\ \A id \in DOMAIN jobs :
       LET s1 == jobRemove(St, {id})
           s2 == jobRemove(s1, {id})
       IN  IF jobs[id].status \in {"waiting", "paused", "ready", "running"}
           THEN ~s1.ret /\ s1.jobs = jobs
           ELSE s1.ret /\ id \notin DOMAIN s1.jobs /\ ~s2.ret /\ s2.jobs = s1.jobs

\* The first job was removed (it was cancelled, completed or failed); the
\* second is running, and jobRemove would refuse it.
C11_Witness ==
  /\ 1 \notin DOMAIN jobs
  /\ 2 \in DOMAIN jobs
  /\ jobs[2].status = "running"
  /\ jobs[2].retried = 1

====
